---- MODULE Spec2Model ----
(***************************************************************************)
(* Model of the deltaS marketplace (src/marketplace/api.py) and of the     *)
(* seller data plane (src/delta_sharing/server.py), with the watermark     *)
(* embedder (src/seller/watermarking.py) and verifier (tests/utils.py).    *)
(*                                                                         *)
(* Spec       share lifecycle at one instant: purchase, trial, approve,    *)
(*            reject, rotate, revoke, profile, queries with an empty body  *)
(* SpecClock  one share of each kind as the clock advances: the guard's    *)
(*            expiry checks and the sweep of old materialised files        *)
(* SpecQuery  the query handler over the request bodies, on a catalog the  *)
(*            lifecycle produces                                           *)
(* SpecWM     embed and verify as pure functions over bounded tables       *)
(* SpecCatalog  publishing of metadata bundles and create_dataset          *)
(* SpecAnchor   queries on datasets whose anchor columns miss the schema   *)
(* SpecListing  the catalog endpoints of the data plane                    *)
(* SpecDSL      the string predicate parser as a pure function             *)
(* SpecRewm     the watermarker applied to its own output                  *)
(* SpecVerdict  the verifier's decision from the counts of its channels    *)
(* SpecBucket   object keys and the sweep, for two shares of one table     *)
(* SpecPurchase purchase_dataset statement by statement, two workers       *)
(***************************************************************************)
EXTENDS Integers, Sequences, FiniteSets, TLC

VARIABLES now, shares, purchases, nextToken, objects, audit, resp, wm, pinned, catalog,
          bundle, hint, inflight

vars == <<now, shares, purchases, nextToken, objects, audit, resp, wm, pinned, catalog,
          bundle, hint, inflight>>

(***************************************************************************)
(* Bounds of the model.  Time is counted in ticks of the clock: a share    *)
(* lives TokenExpiryDays ticks (settings.TOKEN_EXPIRY_DAYS, 365 days in    *)
(* the code) and a materialised file is swept when it is more than         *)
(* CleanupMaxAgeHours ticks old.                                           *)
(***************************************************************************)
MaxShares == 1
MaxTime == 2
MaxTokens == 2
TokenExpiryDays == 1

(***************************************************************************)
(* Values.  None stands for Python's None / SQL NULL in optional integer   *)
(* fields; every real value of such a field is non-negative.               *)
(***************************************************************************)
None == -1
Null == -1

Min(a, b) == IF a <= b THEN a ELSE b
Max(a, b) == IF a >= b THEN a ELSE b

Sellers == {10, 11}
Buyers == {1, 2}
DatasetIds == {1, 2}

SeqToSet(s) == {s[i] : i \in 1..Len(s)}

RECURSIVE SelectSeqIn(_, _)
SelectSeqIn(s, S) ==
    IF s = <<>> THEN <<>>
    ELSE IF Head(s) \in S THEN <<Head(s)>> \o SelectSeqIn(Tail(s), S)
         ELSE SelectSeqIn(Tail(s), S)

(***************************************************************************)
(* The Delta table behind both datasets: two record batches in scanner     *)
(* order.  ts is a timestamp in microseconds; Null marks a missing value.  *)
(***************************************************************************)
SchemaCols == <<"id", "country", "amount", "ts">>
SchemaColSet == SeqToSet(SchemaCols)
TimestampCols == {"ts"}
SortedColNames == <<"amount", "bogus", "country", "id", "ts">>
WatermarkIdCol == "_watermark_id"

Row(i, c, a, t) == [id |-> i, country |-> c, amount |-> a, ts |-> t]

TableBatches ==
    << << Row(1, 1, 10, 100123456), Row(2, 2, 20, 101000000), Row(3, 1, Null, 102999999) >>,
       << Row(4, 1, 40, Null), Row(5, 3, 50, 104500000), Row(6, 1, 60, 105000001) >> >>

RECURSIVE Flatten(_)
Flatten(bs) == IF bs = <<>> THEN <<>> ELSE Head(bs) \o Flatten(Tail(bs))

TableRows == Flatten(TableBatches)

(* datasets stored with an anchor column the table lacks, with no anchor   *)
(* column of the table, and with none at all                               *)
MisconfiguredIds == {3, 4, 5}

Datasets ==
    [d \in DatasetIds \cup MisconfiguredIds |->
        [seller_id |-> 10,
         is_public |-> TRUE,
         requires_approval |-> (d = 2),
         table_name |-> "events",
         anchor_columns |-> CASE d = 3 -> <<"id", "bogus">>
                              [] d = 4 -> <<"bogus">>
                              [] d = 5 -> <<>>
                              [] OTHER -> <<"id">>]]


(***************************************************************************)
(* Tokens.  generate_share_token draws 32 random bytes: the model hands    *)
(* out the next unused number.  hash_token is a keyed HMAC; its stand-in   *)
(* is injective.                                                           *)
(***************************************************************************)
HashToken(t) == t + 1000

VerifyTokenHash(token, stored_hash) == HashToken(token) = stored_hash

IsTokenExpired(expires_at) ==
    IF expires_at = None THEN FALSE ELSE now > expires_at

(* the seller this data plane is pinned to (environment variable SELLER_ID, *)
(* read once at start-up); None when the server is not pinned              *)
SELLER_ID == pinned

NoHeader == [scheme |-> "none", token |-> 0]
Bearer(t) == [scheme |-> "Bearer", token |-> t]

ExtractTokenFromHeader(authorization) ==
    IF authorization.scheme # "Bearer"
    THEN [status |-> 401, token |-> 0]
    ELSE [status |-> 200, token |-> authorization.token]

ShareIds == DOMAIN shares

MinOf(S) == CHOOSE x \in S : \A y \in S : x <= y

RECURSIVE Ascending(_)
Ascending(S) ==
    IF S = {} THEN <<>> ELSE <<MinOf(S)>> \o Ascending(S \ {MinOf(S)})

MatchingShares(token) ==
    {s \in ShareIds :
        /\ ~shares[s].revoked
        /\ \/ shares[s].token = token
           \/ VerifyTokenHash(token, shares[s].token_hash)}

(* the guard without its approval test *)
GuardShareIgnoringApproval(s) ==
    IF SELLER_ID # None /\ shares[s].seller_id # SELLER_ID THEN 403
    ELSE IF shares[s].revoked THEN 401
    ELSE IF IsTokenExpired(shares[s].expires_at) THEN 401
    ELSE IF shares[s].is_trial /\ IsTokenExpired(shares[s].trial_expires_at) THEN 401
    ELSE 200

(* the guard with every refusal reported as 401 *)
GuardShareAll401(s) ==
    IF SELLER_ID # None /\ shares[s].seller_id # SELLER_ID THEN 401
    ELSE IF shares[s].revoked THEN 401
    ELSE IF IsTokenExpired(shares[s].expires_at) THEN 401
    ELSE IF shares[s].is_trial /\ IsTokenExpired(shares[s].trial_expires_at) THEN 401
    ELSE IF shares[s].approval_status # "approved" THEN 401
    ELSE 200

GuardShare(s) ==
    IF SELLER_ID # None /\ shares[s].seller_id # SELLER_ID THEN 403
    ELSE IF shares[s].revoked THEN 401
    ELSE IF IsTokenExpired(shares[s].expires_at) THEN 401
    ELSE IF shares[s].is_trial /\ IsTokenExpired(shares[s].trial_expires_at) THEN 401
    ELSE IF shares[s].approval_status # "approved" THEN 403
    ELSE 200

GetShareFromToken(token) ==
    LET m == MatchingShares(token) IN
    IF m = {} THEN [status |-> 401, share |-> 0]
    ELSE LET s == MinOf(m)
             st == GuardShare(s) IN
         [status |-> st, share |-> IF st = 200 THEN s ELSE 0]

(***************************************************************************)
(* Responses.  Every handler answers with one record; resp holds the       *)
(* answer of the last handler that ran.                                    *)
(***************************************************************************)
NoFile == [present |-> FALSE, cols |-> {}, rows |-> <<>>]
NoBody == [columns |-> <<>>, limit |-> None, preds |-> <<>>]
NoKey == [share |-> 0, uuid |-> 0]

(* A share name of a request path, by its text: share_<id> ("exact"),      *)
(* share_share_<id> ("doubled"), share_0<id> ("padded"), <id> without the  *)
(* prefix ("bare") and share_x ("word").                                   *)
ShareName(kind, id) == [kind |-> kind, id |-> id]

NoPath == [share_name |-> ShareName("bare", 0), schema_name |-> "", table_name |-> ""]

Response(op, status, share) ==
    [op |-> op, status |-> status, share |-> share, scheme |-> "none", token |-> 0,
     body |-> NoBody, limit |-> None, idx |-> <<>>, file |-> NoFile,
     key |-> NoKey, audited |-> FALSE, path |-> NoPath, items |-> {},
     uploads |-> 0, heads |-> 0, pauses |-> 0, swept |-> {}, sweep_failed |-> FALSE]

NoResp == Response("none", 0, 0)

(* the purchase requests being handled: none, outside SpecPurchase *)
NoRequests == <<>>

(***************************************************************************)
(* Catalog endpoints of the data plane (src/delta_sharing/server.py).      *)
(***************************************************************************)
(* startswith("share_"), then int(share_name.replace("share_", "")): every *)
(* occurrence of the prefix is removed and int() accepts leading zeros; a  *)
(* text int() cannot read raises ValueError, answered 500                  *)
ValidateShareAccess(share_name, share_id) ==
    IF share_name.kind = "bare" THEN 404
    ELSE IF share_name.kind = "word" THEN 500
    ELSE IF share_name.id # share_id THEN 403
    ELSE 200

Authenticate(authorization) ==
    LET tok == ExtractTokenFromHeader(authorization) IN
    IF tok.status # 200 THEN [status |-> 401, share |-> 0]
    ELSE GetShareFromToken(tok.token)

Item(share_name, schema_name, table_name) ==
    [share |-> share_name, schema |-> schema_name, table |-> table_name]

(* the answer of a catalog endpoint: level 1 lists shares, 2 schemas,      *)
(* 3 tables, 4 is metadata and version of a table                          *)
CatalogOutcome(level, authorization, share_name, schema_name, table_name) ==
    LET auth == Authenticate(authorization)
        access == ValidateShareAccess(share_name, auth.share)
        Fail(status) == [status |-> status, share |-> 0, items |-> {}] IN
    IF auth.status # 200 THEN Fail(auth.status)
    ELSE IF level = 1
    THEN [status |-> 200, share |-> auth.share,
          items |-> {Item(ShareName("exact", auth.share), "", "")}]
    ELSE IF access # 200 THEN Fail(access)
    ELSE IF level = 2
    THEN [status |-> 200, share |-> auth.share, items |-> {Item(share_name, "default", "")}]
    ELSE IF level = 3
    THEN [status |-> 200, share |-> auth.share,
          items |-> {Item(share_name, schema_name,
                          Datasets[shares[auth.share].dataset_id].table_name)}]
    ELSE IF table_name # Datasets[shares[auth.share].dataset_id].table_name THEN Fail(404)
    ELSE [status |-> 200, share |-> auth.share, items |-> {}]

CatalogRequest(op, level, authorization, share_name, schema_name, table_name) ==
    LET out == CatalogOutcome(level, authorization, share_name, schema_name, table_name) IN
    /\ resp' = [Response(op, out.status, out.share) EXCEPT
                    !.scheme = authorization.scheme,
                    !.token = authorization.token,
                    !.path = [share_name |-> share_name, schema_name |-> schema_name,
                              table_name |-> table_name],
                    !.items = out.items]
    /\ UNCHANGED <<now, shares, purchases, nextToken, objects, audit, wm, pinned,
                   catalog, bundle, hint, inflight>>

ListShares(authorization) ==
    CatalogRequest("list_shares", 1, authorization, NoPath.share_name, "", "")

ListSchemas(authorization, share_name) ==
    CatalogRequest("list_schemas", 2, authorization, share_name, "", "")

ListTables(authorization, share_name, schema_name) ==
    CatalogRequest("list_tables", 3, authorization, share_name, schema_name, "")

GetTableMetadata(authorization, share_name, schema_name, table_name) ==
    CatalogRequest("metadata", 4, authorization, share_name, schema_name, table_name)

GetTableVersion(authorization, share_name, schema_name, table_name) ==
    CatalogRequest("version", 4, authorization, share_name, schema_name, table_name)

(***************************************************************************)
(* Publishing (src/seller/publish.py, src/seller/watermarking.py) and the  *)
(* dataset catalog (create_dataset in src/marketplace/api.py).             *)
(* A column name is known by the terms its lower-cased text contains, of   *)
(* the terms detect_anchor_columns_from_schema looks for.                  *)
(***************************************************************************)
NameTerms ==
    [c \in {"id", "country", "amount", "ts", "event_time", "value", WatermarkIdCol} |->
        CASE c = "id" -> {"id"}
          [] c = "country" -> {"country"}
          [] c = "amount" -> {"amount"}
          [] c = "event_time" -> {"time"}
          [] c = WatermarkIdCol -> {"id"}
          [] OTHER -> {}]

ColumnNames == DOMAIN NameTerms

(* the columns of timestamp type: the ones the watermarker rewrites *)
TimestampTyped == TimestampCols \cup {"event_time"}

TimestampTerms == {"timestamp", "time", "date"}
PiiTerms == {"email", "phone", "ssn", "name", "address", "ip"}
VolatileTerms == {"score", "rating", "price", "amount", "balance"}
IdTerms == {"id", "key", "pk", "uuid", "guid"}
CategoricalTerms == {"type", "status", "category", "code", "country", "region", "state"}

HasAny(col, terms) == NameTerms[col] \cap terms # {}

Take(seq, n) == SubSeq(seq, 1, Min(n, Len(seq)))

(* <<>> stands for the ValueError raised when no column is left *)
DetectAnchorColumnsFromSchema(all_cols, sensitive_columns) ==
    LET excluded == {c \in SeqToSet(all_cols) :
                        \/ HasAny(c, TimestampTerms)
                        \/ HasAny(c, PiiTerms)
                        \/ HasAny(c, VolatileTerms)}
                    \cup {WatermarkIdCol} \cup sensitive_columns
        Keep(c) == c \notin excluded
        IdLike(c) == Keep(c) /\ HasAny(c, IdTerms)
        CategoricalLike(c) == Keep(c) /\ HasAny(c, CategoricalTerms)
        NotWatermarkId(c) == c # WatermarkIdCol
        id_like == SelectSeq(all_cols, IdLike)
        categorical_like == SelectSeq(all_cols, CategoricalLike)
        first == Take(id_like, 3) \o Take(categorical_like, 2)
        second == IF first # <<>> THEN first ELSE Take(SelectSeq(all_cols, Keep), 5)
        third == IF second # <<>> THEN second
                 ELSE Take(SelectSeq(all_cols, NotWatermarkId), 5) IN
    Take(third, 10)

(* HMAC-SHA256 of the sorted JSON text under the signing secret: a tag     *)
(* that determines the signed content and that only the holder of the      *)
(* secret can compute; the seller_id argument is not part of it            *)
GenerateMetadataSignature(metadata, seller_id) ==
    [seller_id |-> metadata.seller_id,
     anchor_columns |-> metadata.anchor_columns,
     risk_score |-> metadata.risk_score]

NoSignature == [seller_id |-> None, anchor_columns |-> <<>>, risk_score |-> 0]

Metadata(seller_id, anchor_columns, risk_score, signature) ==
    [present |-> TRUE, seller_id |-> seller_id, anchor_columns |-> anchor_columns,
     risk_score |-> risk_score, signature |-> signature]

NoBundle ==
    [present |-> FALSE, seller_id |-> None, anchor_columns |-> <<>>,
     risk_score |-> 0, signature |-> NoSignature]

(* the result of the last publish step and whether its anchor columns were *)
(* detected from the schema                                                *)
NoPublished == [metadata |-> NoBundle, detected |-> FALSE]

(* the anchor_columns argument left at its default None *)
NoAnchorArgument == <<"None">>

(* NoBundle stands for the ValueError raised when no anchor column is found *)
PublishDatasetMetadata(schema, seller_id, anchor_columns, sensitive_columns, risk_score) ==
    LET anchors == IF anchor_columns = NoAnchorArgument
                   THEN DetectAnchorColumnsFromSchema(schema, sensitive_columns)
                   ELSE anchor_columns
        metadata == Metadata(seller_id, anchors, risk_score, NoSignature) IN
    IF anchors = <<>> THEN NoBundle
    ELSE [metadata EXCEPT !.signature = GenerateMetadataSignature(metadata, seller_id)]

PublishStep(schema, seller_id, anchor_columns, sensitive_columns, risk_score) ==
    /\ bundle' = [metadata |-> PublishDatasetMetadata(schema, seller_id, anchor_columns,
                                                      sensitive_columns, risk_score),
                  detected |-> anchor_columns = NoAnchorArgument]
    /\ resp' = Response("publish", IF bundle'.metadata.present THEN 200 ELSE 500, 0)
    /\ UNCHANGED <<now, shares, purchases, nextToken, objects, audit, wm, pinned, catalog, hint, inflight>>

ValidateMetadataSignature(metadata, seller_id) ==
    metadata.signature = GenerateMetadataSignature(metadata, seller_id)

RequiresApprovalScore == 20

NewDataset(seller_id, anchor_columns, risk_score, requires_approval) ==
    [seller_id |-> seller_id, anchor_columns |-> anchor_columns,
     risk_score |-> risk_score, requires_approval |-> requires_approval]

DatasetCreate(anchor_columns, metadata_bundle) ==
    [anchor_columns |-> anchor_columns, metadata_bundle |-> metadata_bundle]

(* the answer of create_dataset and the row it stores, if any *)
CreateDatasetOutcome(dataset_data, current_user) ==
    LET metadata == dataset_data.metadata_bundle
        Refused == [status |-> 400, stored |-> <<>>] IN
    IF metadata.present
    THEN IF ~ValidateMetadataSignature(metadata, current_user) THEN Refused
         ELSE IF metadata.seller_id # current_user THEN Refused
         ELSE [status |-> 201,
               stored |-> <<NewDataset(current_user, metadata.anchor_columns,
                                       metadata.risk_score,
                                       metadata.risk_score >= RequiresApprovalScore)>>]
    ELSE IF dataset_data.anchor_columns = <<>>
         THEN Refused
         ELSE [status |-> 201,
               stored |-> <<NewDataset(current_user, dataset_data.anchor_columns, 0, FALSE)>>]

MaxDatasets == 1

CreateDataset(dataset_data, current_user) ==
    LET out == CreateDatasetOutcome(dataset_data, current_user) IN
    /\ Len(catalog) + Len(out.stored) <= MaxDatasets
    /\ catalog' = catalog \o out.stored
    /\ resp' = Response("create_dataset", out.status, 0)
    /\ UNCHANGED <<now, shares, purchases, nextToken, objects, audit, wm, pinned, bundle, hint, inflight>>

(***************************************************************************)
(* Marketplace handlers (src/marketplace/api.py).                          *)
(***************************************************************************)
NewShare(d, buyer, token, expires, status, trial, row_limit, trial_expires) ==
    [dataset_id |-> d,
     seller_id |-> Datasets[d].seller_id,
     buyer_id |-> buyer,
     token |-> token,
     token_hash |-> HashToken(token),
     expires_at |-> expires,
     approval_status |-> status,
     revoked |-> FALSE,
     is_trial |-> trial,
     trial_row_limit |-> row_limit,
     trial_expires_at |-> trial_expires,
     profile_json |-> None]

CanCreate == Len(shares) < MaxShares /\ nextToken <= MaxTokens

dataUnchanged == <<objects, audit, wm, pinned, catalog, bundle, hint, inflight>>

PurchaseDataset(buyer, d) ==
    /\ IF d \notin DOMAIN Datasets
       THEN /\ resp' = Response("purchase", 404, 0)
            /\ UNCHANGED <<shares, purchases, nextToken>>
       ELSE IF ~Datasets[d].is_public /\ Datasets[d].seller_id # buyer
       THEN /\ resp' = Response("purchase", 403, 0)
            /\ UNCHANGED <<shares, purchases, nextToken>>
       ELSE IF \E s \in ShareIds : shares[s].dataset_id = d /\ shares[s].buyer_id = buyer
       THEN /\ resp' = Response("purchase", 400, 0)
            /\ UNCHANGED <<shares, purchases, nextToken>>
       ELSE LET approval_status == IF Datasets[d].requires_approval THEN "pending" ELSE "approved"
                share == NewShare(d, buyer, nextToken, now + TokenExpiryDays,
                                  approval_status, FALSE, None, None) IN
            /\ CanCreate
            /\ shares' = Append(shares, share)
            /\ purchases' = purchases \cup {[buyer_id |-> buyer, dataset_id |-> d,
                                             share_id |-> Len(shares) + 1]}
            /\ nextToken' = nextToken + 1
            /\ resp' = Response("purchase", 200, Len(shares) + 1)
    /\ UNCHANGED now
    /\ UNCHANGED dataUnchanged

DefaultTrialRows == 100
MaxTrialRows == 1000
DefaultTrialDays == 7

TrialRowLimit(row_limit) ==
    Min(IF row_limit = None \/ row_limit = 0 THEN DefaultTrialRows ELSE row_limit, MaxTrialRows)

TrialDays(days_valid) ==
    IF days_valid = None \/ days_valid = 0 THEN DefaultTrialDays ELSE days_valid

ExistingTrials(buyer, d) ==
    {s \in ShareIds : /\ shares[s].dataset_id = d
                      /\ shares[s].buyer_id = buyer
                      /\ shares[s].is_trial
                      /\ ~shares[s].revoked}

RequestTrial(buyer, d, row_limit, days_valid) ==
    /\ IF d \notin DOMAIN Datasets
       THEN /\ resp' = Response("trial", 404, 0)
            /\ UNCHANGED <<shares, nextToken>>
       ELSE IF ~Datasets[d].is_public /\ Datasets[d].seller_id # buyer
       THEN /\ resp' = Response("trial", 403, 0)
            /\ UNCHANGED <<shares, nextToken>>
       ELSE IF /\ ExistingTrials(buyer, d) # {}
               /\ LET e == shares[MinOf(ExistingTrials(buyer, d))] IN
                  e.trial_expires_at # None /\ e.trial_expires_at > now
       THEN /\ resp' = Response("trial", 400, 0)
            /\ UNCHANGED <<shares, nextToken>>
       ELSE LET expires_at == now + TrialDays(days_valid)
                share == NewShare(d, buyer, nextToken, expires_at, "approved", TRUE,
                                  TrialRowLimit(row_limit), expires_at) IN
            /\ CanCreate
            /\ shares' = Append(shares, share)
            /\ nextToken' = nextToken + 1
            /\ resp' = Response("trial", 200, Len(shares) + 1)
    /\ UNCHANGED <<now, purchases>>
    /\ UNCHANGED dataUnchanged

(* generate_delta_sharing_profile reads share.encrypted_token, an          *)
(* attribute the Share model (models/database.py) does not declare.        *)
ShareHasEncryptedTokenAttr == FALSE

(* the seller has registered the URL of the data plane (PUT /me/...) *)
serverUrlSet == TRUE

GenerateDeltaSharingProfile(share, token) ==
    IF ~serverUrlSet THEN None
    ELSE IF share.approval_status # "approved" THEN None
    ELSE IF share.revoked THEN None
    ELSE IF ~ShareHasEncryptedTokenAttr THEN None
    ELSE token

SellerOpDenied(op, seller, sid) ==
    IF sid \notin ShareIds THEN Response(op, 404, 0)
    ELSE IF shares[sid].seller_id # seller THEN Response(op, 403, 0)
    ELSE NoResp

(* a rotation that replaces the token and leaves its stored hash *)
RotatedKeepingHash(share, new_token) == [share EXCEPT !.token = new_token]

(* share.token and share.token_hash are both replaced *)
Rotated(share, new_token) ==
    [share EXCEPT !.token = new_token, !.token_hash = HashToken(new_token)]

RotateShareToken(seller, sid) ==
    /\ IF SellerOpDenied("rotate", seller, sid) # NoResp
       THEN /\ resp' = SellerOpDenied("rotate", seller, sid)
            /\ UNCHANGED <<shares, nextToken>>
       ELSE IF shares[sid].revoked
       THEN /\ resp' = Response("rotate", 400, 0)
            /\ UNCHANGED <<shares, nextToken>>
       ELSE LET rotated == Rotated(shares[sid], nextToken)
                profile == IF serverUrlSet /\ rotated.approval_status = "approved"
                           THEN GenerateDeltaSharingProfile(rotated, nextToken)
                           ELSE None IN
            /\ nextToken <= MaxTokens
            /\ shares' = [shares EXCEPT ![sid] =
                            IF profile # None
                            THEN [rotated EXCEPT !.profile_json = profile]
                            ELSE rotated]
            /\ nextToken' = nextToken + 1
            /\ resp' = Response("rotate", 200, sid)
    /\ UNCHANGED <<now, purchases>>
    /\ UNCHANGED dataUnchanged

RevokeShare(seller, sid) ==
    /\ IF SellerOpDenied("revoke", seller, sid) # NoResp
       THEN /\ resp' = SellerOpDenied("revoke", seller, sid)
            /\ UNCHANGED shares
       ELSE /\ shares' = [shares EXCEPT ![sid].revoked = TRUE,
                                        ![sid].profile_json = None]
            /\ resp' = Response("revoke", 204, sid)
    /\ UNCHANGED <<now, purchases, nextToken>>
    /\ UNCHANGED dataUnchanged

(* an approval that also clears the revoked flag *)
ApprovedAndReinstated(share) ==
    [share EXCEPT !.approval_status = "approved", !.revoked = FALSE]

Approved(share) == [share EXCEPT !.approval_status = "approved"]

ApproveShare(seller, sid) ==
    /\ IF SellerOpDenied("approve", seller, sid) # NoResp
       THEN /\ resp' = SellerOpDenied("approve", seller, sid)
            /\ UNCHANGED shares
       ELSE LET approved == Approved(shares[sid])
                profile == IF serverUrlSet
                           THEN GenerateDeltaSharingProfile(approved, approved.token)
                           ELSE None IN
            /\ shares' = [shares EXCEPT ![sid] =
                            IF profile # None
                            THEN [approved EXCEPT !.profile_json = profile]
                            ELSE approved]
            /\ resp' = Response("approve", 200, sid)
    /\ UNCHANGED <<now, purchases, nextToken>>
    /\ UNCHANGED dataUnchanged

RejectShare(seller, sid) ==
    /\ IF SellerOpDenied("reject", seller, sid) # NoResp
       THEN /\ resp' = SellerOpDenied("reject", seller, sid)
            /\ UNCHANGED shares
       ELSE /\ shares' = [shares EXCEPT ![sid].approval_status = "rejected"]
            /\ resp' = Response("reject", 200, sid)
    /\ UNCHANGED <<now, purchases, nextToken>>
    /\ UNCHANGED dataUnchanged

GetShareProfile(user, sid) ==
    /\ IF sid \notin ShareIds
       THEN /\ resp' = Response("profile", 404, 0)
            /\ UNCHANGED shares
       ELSE IF shares[sid].buyer_id # user /\ shares[sid].seller_id # user
       THEN /\ resp' = Response("profile", 403, 0)
            /\ UNCHANGED shares
       ELSE IF shares[sid].profile_json # None
       THEN /\ resp' = Response("profile", 200, sid)
            /\ UNCHANGED shares
       ELSE IF shares[sid].approval_status # "approved"
       THEN /\ resp' = Response("profile", 400, 0)
            /\ UNCHANGED shares
       ELSE IF ~serverUrlSet
       THEN /\ resp' = Response("profile", 500, 0)
            /\ UNCHANGED shares
       ELSE LET profile == GenerateDeltaSharingProfile(shares[sid], shares[sid].token) IN
            IF profile = None
            THEN /\ resp' = Response("profile", 500, 0)
                 /\ UNCHANGED shares
            ELSE /\ shares' = [shares EXCEPT ![sid].profile_json = profile]
                 /\ resp' = Response("profile", 200, sid)
    /\ UNCHANGED <<now, purchases, nextToken>>
    /\ UNCHANGED dataUnchanged

(* The clock (datetime.utcnow) advances between requests. *)
Tick ==
    /\ now < MaxTime
    /\ now' = now + 1
    /\ resp' = NoResp
    /\ UNCHANGED <<shares, purchases, nextToken>>
    /\ UNCHANGED dataUnchanged


(***************************************************************************)
(* Watermark key and row anchor (src/seller/watermarking.py).  HMAC-SHA256 *)
(* and SHA-256 are replaced by arithmetic stand-ins: deterministic, and    *)
(* functions of exactly the inputs the code feeds to the hash.             *)
(***************************************************************************)
WatermarkLen == 8

GenerateWatermark(buyer_id, share_id) ==
    [i \in 1..WatermarkLen |-> (37 * buyer_id + 101 * share_id + 53 * i * (buyer_id + share_id)) % 256]

(* int(watermark[:8], 16) mod m, computed without leaving 32-bit integers *)
SeedMod(wmk, m) ==
    (wmk[1] * (16777216 % m) + wmk[2] * (65536 % m) + wmk[3] * (256 % m) + wmk[4]) % m

AnchorSpace == 16777216

NormalizeValueForAnchor(v) == IF v = Null THEN 999 ELSE v % 65521

RECURSIVE AnchorFold(_, _, _, _)
AnchorFold(row, names, use, h) ==
    IF names = <<>> THEN h
    ELSE IF Head(names) \in use
         THEN AnchorFold(row, Tail(names), use,
                         (h * 31 + Len(names) * 7 + NormalizeValueForAnchor(row[Head(names)]) + 1) % AnchorSpace)
         ELSE AnchorFold(row, Tail(names), use, h)

(* -1 stands for the ValueError "Anchor columns missing from row" *)
ComputeRowAnchor(row, anchor_columns) ==
    LET visible == DOMAIN row \ {WatermarkIdCol} IN
    IF anchor_columns # <<>>
    THEN IF SeqToSet(anchor_columns) \subseteq visible
         THEN AnchorFold(row, SortedColNames, SeqToSet(anchor_columns), 17)
         ELSE -1
    ELSE AnchorFold(row, SortedColNames, visible, 17)

EmbedMicroseconds(wmk, anchor) ==
    (wmk[(anchor % WatermarkLen) + 1] * 1000 + SeedMod(wmk, 1000)) % 1000000

FloorToSecond(ts) == ts - (ts % 1000000)

WatermarkRow(row, wmk, is_trial, anchor_columns) ==
    LET anchor == ComputeRowAnchor(row, anchor_columns)
        cols == DOMAIN row \cup (IF is_trial THEN {WatermarkIdCol} ELSE {}) IN
    [c \in cols |->
        IF c = WatermarkIdCol /\ is_trial THEN anchor % 1000000
        ELSE IF c \in TimestampCols /\ row[c] # Null
             THEN FloorToSecond(row[c]) + EmbedMicroseconds(wmk, anchor)
             ELSE row[c]]

(* a dataframe: its columns, and its rows as functions from the columns *)
Dataframe(cols, rows) == [cols |-> cols, rows |-> rows]

ApplyWatermarkToDataframe(df, wmk, is_trial, anchor_columns) ==
    IF df.rows = <<>> THEN df
    ELSE Dataframe(df.cols \cup (IF is_trial THEN {WatermarkIdCol} ELSE {}),
                   [i \in 1..Len(df.rows) |->
                       WatermarkRow(df.rows[i], wmk, is_trial, anchor_columns)])

(***************************************************************************)
(* The verifier (tests/utils.py, check_watermark).                         *)
(***************************************************************************)
ExcludedNames == {"id"}

DetectTimestampColumns(df) ==
    {c \in df.cols \ {WatermarkIdCol} : c \notin ExcludedNames /\ c \in TimestampCols}

Abs(x) == IF x < 0 THEN -x ELSE x

ExpectedMicroseconds(wmk, anchor) ==
    (wmk[(anchor % WatermarkLen) + 1] * 12500 + SeedMod(wmk, 10000)) % 1000000

MinSampleSize(row_count) == Min(20, Max(5, row_count \div 4))
(* a fixed number of matches, whatever the sample *)
MinMatchCountThree(row_count) == 3

MinMatchCount(row_count) == Max(3, MinSampleSize(row_count) \div 4)
WatermarkColThresholdPct == 50
TimestampThresholdPct == 15

ChannelFound(checked, matches, row_count, threshold_pct) ==
    /\ checked >= MinSampleSize(row_count)
    /\ matches >= MinMatchCount(row_count)
    /\ checked > 0
    /\ matches * 100 >= threshold_pct * checked

CheckWatermark(df, buyer_id, share_id, anchor_columns) ==
    LET wmk == GenerateWatermark(buyer_id, share_id)
        has_watermark_column == WatermarkIdCol \in df.cols
        timestamp_cols == DetectTimestampColumns(df)
        anchor_cols_df == df.cols \ {WatermarkIdCol}
        available == SelectSeqIn(anchor_columns, anchor_cols_df)
        anchor_columns_missing == anchor_columns # <<>> /\ available = <<>>
        anchors_used == IF anchor_columns = <<>> \/ anchor_columns_missing THEN <<>> ELSE available
        rows == 1..Len(df.rows)
        Anchor(i) == ComputeRowAnchor(df.rows[i], anchors_used)
        wm_checked == {i \in rows : has_watermark_column /\ Anchor(i) # -1}
        wm_matches == {i \in wm_checked :
                          Abs(df.rows[i][WatermarkIdCol] - (Anchor(i) % 1000000)) < 10}
        TsMatch(i, c) ==
            LET diff == Abs((df.rows[i][c] % 1000000) - ExpectedMicroseconds(wmk, Anchor(i))) IN
            diff < 1000 \/ diff > 999000
        ts_checked == {i \in rows : Anchor(i) # -1 /\ \E c \in timestamp_cols : df.rows[i][c] # Null}
        ts_matches == {i \in ts_checked :
                          \E c \in timestamp_cols : df.rows[i][c] # Null /\ TsMatch(i, c)}
        watermark_column_found ==
            ChannelFound(Cardinality(wm_checked), Cardinality(wm_matches),
                         Len(df.rows), WatermarkColThresholdPct)
        timestamp_found ==
            ChannelFound(Cardinality(ts_checked), Cardinality(ts_matches),
                         Len(df.rows), TimestampThresholdPct) IN
    IF timestamp_cols = {} /\ ~has_watermark_column
    THEN [found |-> FALSE, watermark_column_found |-> FALSE, timestamp_found |-> FALSE,
          watermark_column_checked |-> 0, watermark_column_matches |-> 0,
          timestamp_checked |-> 0, timestamp_matches |-> 0]
    ELSE [found |-> (watermark_column_found \/ timestamp_found) /\ ~anchor_columns_missing,
          watermark_column_found |-> watermark_column_found,
          timestamp_found |-> timestamp_found,
          watermark_column_checked |-> Cardinality(wm_checked),
          watermark_column_matches |-> Cardinality(wm_matches),
          timestamp_checked |-> Cardinality(ts_checked),
          timestamp_matches |-> Cardinality(ts_matches)]

(***************************************************************************)
(* Predicates (src/utils/predicate_parser.py), JSON form.                  *)
(***************************************************************************)
MAX_PREDICATES == 20
MAX_IN_LIST_SIZE == 1000

SupportedOps == {"=", "!=", ">", "<", ">=", "<=", "IN", "IS NULL", "IS NOT NULL"}

Pred(column, op, value, values) ==
    [column |-> column, op |-> op, value |-> value, values |-> values]

(* 200, or the 400 of the first predicate that is refused *)
RECURSIVE ParseJsonPredicateHints(_)
ParseJsonPredicateHints(preds) ==
    IF preds = <<>> THEN 200
    ELSE LET p == Head(preds) IN
         IF p.column = "" \/ p.op = "" THEN 400
         ELSE IF p.op \in {"IS NULL", "IS NOT NULL"} THEN ParseJsonPredicateHints(Tail(preds))
         ELSE IF p.op = "IN"
              THEN IF p.values = {} \/ Cardinality(p.values) > MAX_IN_LIST_SIZE THEN 400
                   ELSE ParseJsonPredicateHints(Tail(preds))
         ELSE IF p.value = None THEN 400
         ELSE ParseJsonPredicateHints(Tail(preds))

RECURSIVE ValidatePredicates(_)
ValidatePredicates(preds) ==
    IF preds = <<>> THEN 200
    ELSE LET p == Head(preds) IN
         IF p.column \notin SchemaColSet THEN 400
         ELSE IF p.op \notin SupportedOps THEN 400
         ELSE IF p.op = "IN" /\ Cardinality(p.values) > MAX_IN_LIST_SIZE THEN 400
         ELSE ValidatePredicates(Tail(preds))

ParseQueryPredicates(body) ==
    IF Len(body.preds) > MAX_PREDICATES THEN 400
    ELSE IF ParseJsonPredicateHints(body.preds) # 200 THEN 400
    ELSE ValidatePredicates(body.preds)

(* a comparison with a NULL cell is NULL, and the scanner drops the row *)
PredicateHolds(p, row) ==
    LET v == row[p.column] IN
    CASE p.op = "IS NULL" -> v = Null
      [] p.op = "IS NOT NULL" -> v # Null
      [] p.op = "IN" -> v # Null /\ v \in p.values
      [] p.op = "=" -> v # Null /\ v = p.value
      [] p.op = "!=" -> v # Null /\ v # p.value
      [] p.op = ">" -> v # Null /\ v > p.value
      [] p.op = "<" -> v # Null /\ v < p.value
      [] p.op = ">=" -> v # Null /\ v >= p.value
      [] p.op = "<=" -> v # Null /\ v <= p.value
      [] OTHER -> FALSE

FilterHolds(preds, row) == \A i \in 1..Len(preds) : PredicateHolds(preds[i], row)

(***************************************************************************)
(* The string form of a predicate (parse_predicate_string).  A string is   *)
(* the sequence of its words, separated by single spaces; the parser's     *)
(* tests " op " in s and " IS NULL" in s.upper() look for a word that is   *)
(* neither the first nor, for the comparisons, the last.                   *)
(***************************************************************************)
IntWords == {"1", "20"}
QuotedWords == {"'EE'", "'x'"}
KeywordValues == {"TRUE", "FALSE", "NULL"}
ListWords == {"(2,3)"}

(* first position from which the words ws occur in s after a first word; 0 if none *)
FindAfterFirst(s, ws) ==
    LET hits == {i \in 2..Len(s) :
                    /\ i + Len(ws) - 1 <= Len(s)
                    /\ SubSeq(s, i, i + Len(ws) - 1) = ws} IN
    IF hits = {} THEN 0 ELSE MinOf(hits)

(* first position of the word op with a word before and a word after; 0 if none *)
FindBetween(s, op) ==
    LET hits == {i \in 2..(Len(s) - 1) : s[i] = op} IN
    IF hits = {} THEN 0 ELSE MinOf(hits)

(* ^(.+?)\s+IN\s+\((.+)\)$ : the first IN after a first word that is      *)
(* followed by a word opening a parenthesis, the last word closing one;    *)
(* 0 if none                                                               *)
FindList(s) ==
    LET hits == {i \in 2..(Len(s) - 1) :
                    /\ s[i] = "IN"
                    /\ s[i + 1] \in ListWords \cup {"("}
                    /\ s[Len(s)] \in ListWords \cup {")"}} IN
    IF hits = {} THEN 0 ELSE MinOf(hits)

(* parse_value: a quoted text loses its quotes, TRUE, FALSE and NULL are   *)
(* read, a number is read, and anything else is kept as text               *)
ParseValue(ws) ==
    IF Head(ws) \in QuotedWords /\ ws[Len(ws)] \in QuotedWords
    THEN [kind |-> "string", words |-> ws]
    ELSE IF Len(ws) = 1 /\ ws[1] \in KeywordValues THEN [kind |-> "keyword", words |-> ws]
    ELSE IF Len(ws) = 1 /\ ws[1] \in IntWords THEN [kind |-> "int", words |-> ws]
    ELSE [kind |-> "text", words |-> ws]

NoValue == [kind |-> "none", words |-> <<>>]

PredicateNode(op, column, value) == [op |-> op, column |-> column, value |-> value]

ComparisonOrder == <<"!=", ">=", "<=", "=", ">", "<">>

(* the first operator of the parser's loop that occurs between two words; 0 if none *)
FirstComparison(s) ==
    LET found == {k \in 1..Len(ComparisonOrder) : FindBetween(s, ComparisonOrder[k]) # 0} IN
    IF found = {} THEN 0 ELSE MinOf(found)

(* status 200 with the node, or the 400 of "Unsupported predicate format" *)
ParsePredicateString(s) ==
    LET Ok(node) == [status |-> 200, node |-> node]
        Refused == [status |-> 400, node |-> PredicateNode("", <<>>, NoValue)]
        notnull == FindAfterFirst(s, <<"IS", "NOT", "NULL">>)
        isnull == FindAfterFirst(s, <<"IS", "NULL">>)
        k == FirstComparison(s)
        list == FindList(s) IN
    IF notnull # 0
    THEN Ok(PredicateNode("IS NOT NULL", SubSeq(s, 1, notnull - 1), NoValue))
    ELSE IF isnull # 0
    THEN Ok(PredicateNode("IS NULL", SubSeq(s, 1, isnull - 1), NoValue))
    ELSE IF k # 0
    THEN LET at == FindBetween(s, ComparisonOrder[k]) IN
         Ok(PredicateNode(ComparisonOrder[k], SubSeq(s, 1, at - 1),
                          ParseValue(SubSeq(s, at + 1, Len(s)))))
    ELSE IF list # 0
    THEN Ok(PredicateNode("IN", SubSeq(s, 1, list - 1),
                          [kind |-> "list", words |-> SubSeq(s, list + 1, Len(s))]))
    ELSE Refused

(* parse_predicate_hints and validate_predicates for one string: the       *)
(* column text must be a column of the schema                              *)
ParseHintOutcome(s) ==
    LET parsed == ParsePredicateString(s) IN
    IF parsed.status # 200 THEN parsed
    ELSE IF Len(parsed.node.column) # 1 \/ parsed.node.column[1] \notin SchemaColSet
    THEN [parsed EXCEPT !.status = 400]
    ELSE IF parsed.node.op \notin SupportedOps THEN [parsed EXCEPT !.status = 400]
    ELSE parsed

ParseHint ==
    /\ hint # <<>>
    /\ resp' = [Response("parse", ParseHintOutcome(hint).status, 0) EXCEPT
                    !.body = [columns |-> <<>>, limit |-> None,
                              preds |-> <<ParseHintOutcome(hint).node>>]]
    /\ UNCHANGED <<now, shares, purchases, nextToken, objects, audit, wm, pinned, catalog,
                   bundle, hint, inflight>>

(***************************************************************************)
(* query_table (src/delta_sharing/server.py).                              *)
(***************************************************************************)
Truthy(n) == n # None /\ n # 0

EffectiveLimit(share, requested_limit) ==
    IF share.is_trial /\ Truthy(share.trial_row_limit)
    THEN IF Truthy(requested_limit)
         THEN Min(requested_limit, share.trial_row_limit)
         ELSE share.trial_row_limit
    ELSE IF Truthy(requested_limit) THEN requested_limit
    ELSE None

AnchorColumnsList(dataset) == SelectSeqIn(dataset.anchor_columns, SchemaColSet)

ColumnsToRead(requested_set, anchor_list) ==
    (IF requested_set # {} THEN requested_set ELSE SchemaColSet) \cup SeqToSet(anchor_list)

(* the scanner's batches, as positions in TableRows, after the filter *)
RECURSIVE FilteredBatches(_, _, _)
FilteredBatches(batches, base, preds) ==
    IF batches = <<>> THEN <<>>
    ELSE LET b == Head(batches)
             keep == SelectSeqIn([i \in 1..Len(b) |-> base + i],
                                 {base + i : i \in {j \in 1..Len(b) : FilterHolds(preds, b[j])}}) IN
         <<keep>> \o FilteredBatches(Tail(batches), base + Len(b), preds)

(* the loop over scanner.to_batches() with its limit checks *)
RECURSIVE CollectBatches(_, _, _)
CollectBatches(batches, taken, effective_limit) ==
    IF batches = <<>> THEN taken
    ELSE IF Truthy(effective_limit) /\ Len(taken) >= effective_limit THEN taken
    ELSE LET batch == Head(batches)
             remaining == effective_limit - Len(taken)
             sliced == IF Truthy(effective_limit) /\ remaining < Len(batch)
                       THEN SubSeq(batch, 1, remaining)
                       ELSE batch
             acc == taken \o sliced IN
         IF Truthy(effective_limit) /\ Len(acc) >= effective_limit THEN acc
         ELSE CollectBatches(Tail(batches), acc, effective_limit)

(* the limit taken on the scanner's rows before the filter *)
ScanRowsLimitFirst(preds, effective_limit) ==
    LET head == CollectBatches(FilteredBatches(TableBatches, 0, <<>>), <<>>, effective_limit) IN
    SelectSeqIn(head, {i \in 1..Len(TableRows) : FilterHolds(preds, TableRows[i])})

ScanRows(preds, effective_limit) ==
    CollectBatches(FilteredBatches(TableBatches, 0, preds), <<>>, effective_limit)

Restrict(row, cols) == [c \in cols |-> row[c]]

ColumnsToReturn(requested_set, anchor_list, watermarked_cols, is_trial) ==
    LET afterAnchors ==
            requested_set \ {a \in SeqToSet(anchor_list) :
                                a \notin requested_set /\ a \in requested_set}
        afterWatermarkId ==
            IF WatermarkIdCol \in watermarked_cols /\ is_trial
            THEN afterAnchors \ (IF WatermarkIdCol \notin requested_set /\ WatermarkIdCol \in afterAnchors
                                 THEN {WatermarkIdCol} ELSE {})
            ELSE afterAnchors IN
    afterWatermarkId \cap watermarked_cols

(* the watermarked frame handed on without the projection *)
ProjectResultKeepAll(watermarked_df, requested_set, anchor_list, is_trial) == watermarked_df

ProjectResult(watermarked_df, requested_set, anchor_list, is_trial) ==
    IF requested_set = {} THEN watermarked_df
    ELSE LET available == ColumnsToReturn(requested_set, anchor_list, watermarked_df.cols, is_trial) IN
         Dataframe(available,
                   [i \in 1..Len(watermarked_df.rows) |-> Restrict(watermarked_df.rows[i], available)])


CleanupMaxAgeHours == 1
MaxHeadRetries == 3

(* the loop of head_object calls after the upload, when the first          *)
(* head_failures calls raise: attempt i (from 0) either succeeds and       *)
(* breaks, or fails and sleeps 200 ms before the next one, or, as the last *)
(* one, raises                                                             *)
RECURSIVE HeadLoopOf(_, _, _, _)
HeadLoopOf(max_retries, i, head_failures, pauses) ==
    IF i >= head_failures THEN [ok |-> TRUE, heads |-> i + 1, pauses |-> pauses]
    ELSE IF i < max_retries - 1 THEN HeadLoopOf(max_retries, i + 1, head_failures, pauses + 1)
    ELSE [ok |-> FALSE, heads |-> i + 1, pauses |-> pauses]

(* a loop that probes once more than max_retries *)
HeadLoopOneMore(head_failures) == HeadLoopOf(MaxHeadRetries + 1, 0, head_failures, 0)

HeadLoop(head_failures) == HeadLoopOf(MaxHeadRetries, 0, head_failures, 0)

KeyOf(share_id, uuid) == [share |-> share_id, uuid |-> uuid]

(* a sweep that looks at the age of an object only *)
CleanupEligibleAnyShare(share_id) ==
    {o \in objects : o.mtime < now - CleanupMaxAgeHours}

(* cleanup_old_watermarked_files: the objects under the share's prefix     *)
(* that are older than the cutoff                                          *)
CleanupEligible(share_id) ==
    {o \in objects : o.key.share = share_id /\ o.mtime < now - CleanupMaxAgeHours}

(* how far the handler gets, and the status it answers with *)
QueryOutcome(authorization, share_name, table_name, body, env) ==
    LET tok == ExtractTokenFromHeader(authorization)
        auth == IF tok.status # 200 THEN [status |-> 401, share |-> 0]
                ELSE GetShareFromToken(tok.token) IN
    IF auth.status # 200 THEN [stage |-> "auth", status |-> auth.status, share |-> 0]
    ELSE
    LET share == shares[auth.share]
        dataset == Datasets[share.dataset_id]
        anchor_list == AnchorColumnsList(dataset)
        requested_set == SeqToSet(body.columns)
        columns_to_read == ColumnsToRead(requested_set, anchor_list)
        St(stage, status) == [stage |-> stage, status |-> status, share |-> auth.share] IN
    IF share_name = 0 THEN St("path", 404)
    ELSE IF share_name # auth.share THEN St("path", 403)
    ELSE IF table_name # dataset.table_name THEN St("table", 404)
    ELSE IF dataset.anchor_columns = <<>> \/ anchor_list = <<>> THEN St("anchor", 500)
    ELSE IF ParseQueryPredicates(body) # 200 THEN St("predicate", 400)
    ELSE IF ~(columns_to_read \subseteq SchemaColSet) THEN St("columns", 400)
    ELSE IF ~env.upload_ok THEN St("upload", 500)
    ELSE IF ~HeadLoop(env.head_failures).ok THEN St("head", 500)
    ELSE St("ok", 200)

CleanupRan(stage) == stage \notin {"auth", "path", "table"}

(* the upload moved ahead of predicate and column validation *)
UploadedBeforeValidation(stage) == stage \in {"predicate", "columns", "head", "ok"}

Uploaded(stage) == stage \in {"head", "ok"}

Audited(stage, audit_ok) == stage = "ok" /\ audit_ok

(* a failure of the audit write turned into an error answer *)
StatusAuditRaises(out, audit_ok) ==
    IF out.stage = "ok" /\ ~audit_ok THEN 500 ELSE out.status

(* the status answered once the audit write was tried: its failure is      *)
(* caught and printed, the answer built before it is returned as it is     *)
StatusAfterAudit(out, audit_ok) == out.status

(* the file the handler materialises for an authenticated, valid request *)
MaterialisedRows(share, body) ==
    ScanRows(body.preds, EffectiveLimit(share, body.limit))

MaterialisedFile(share_id, body) ==
    LET share == shares[share_id]
        dataset == Datasets[share.dataset_id]
        anchor_list == AnchorColumnsList(dataset)
        requested_set == SeqToSet(body.columns)
        columns_to_read == ColumnsToRead(requested_set, anchor_list)
        idx == MaterialisedRows(share, body)
        df == Dataframe(columns_to_read,
                        [i \in 1..Len(idx) |-> Restrict(TableRows[idx[i]], columns_to_read)])
        watermarked_df == ApplyWatermarkToDataframe(
                              df, GenerateWatermark(share.buyer_id, share_id),
                              share.is_trial, anchor_list) IN
    ProjectResult(watermarked_df, requested_set, anchor_list, share.is_trial)

(* an audit row that reports the rows of the table instead of the file's *)
AuditLogTableRows(share_id, file, effective_limit, body) ==
    [buyer_id |-> shares[share_id].buyer_id,
     dataset_id |-> shares[share_id].dataset_id,
     share_id |-> share_id,
     columns_returned |-> file.cols,
     row_count_returned |-> Len(TableRows),
     query_limit |-> effective_limit,
     predicates_applied_count |-> IF body.preds = <<>> THEN None ELSE Len(body.preds)]

AuditLog(share_id, file, effective_limit, body) ==
    [buyer_id |-> shares[share_id].buyer_id,
     dataset_id |-> shares[share_id].dataset_id,
     share_id |-> share_id,
     columns_returned |-> file.cols,
     row_count_returned |-> Len(file.rows),
     query_limit |-> effective_limit,
     predicates_applied_count |-> IF body.preds = <<>> THEN None ELSE Len(body.preds)]

MaxAudit == 1
MaxUuid == 1

QueryTable(authorization, share_name, table_name, body, env) ==
    /\ LET out == QueryOutcome(authorization, share_name, table_name, body, env)
           eligible == IF CleanupRan(out.stage) THEN CleanupEligible(out.share) ELSE {}
           key == KeyOf(out.share, env.uuid)
           file == MaterialisedFile(out.share, body)
           effective_limit == EffectiveLimit(shares[out.share], body.limit) IN
       \E deleted \in SUBSET eligible :
          /\ Audited(out.stage, env.audit_ok) => Len(audit) < MaxAudit
          /\ env.cleanup_ok => deleted = eligible
          /\ objects' =
                IF Uploaded(out.stage)
                THEN {o \in objects \ deleted : o.key # key} \cup {[key |-> key, mtime |-> now]}
                ELSE objects \ deleted
          /\ audit' =
                IF Audited(out.stage, env.audit_ok)
                THEN Append(audit, AuditLog(out.share, file, effective_limit, body))
                ELSE audit
          /\ resp' =
                [Response("query", StatusAfterAudit(out, env.audit_ok), out.share) EXCEPT
                    !.scheme = authorization.scheme,
                    !.token = authorization.token,
                    !.body = body,
                    !.limit = IF out.stage = "ok" THEN effective_limit ELSE None,
                    !.idx = IF out.stage = "ok" THEN MaterialisedRows(shares[out.share], body) ELSE <<>>,
                    !.file = IF out.stage = "ok"
                             THEN [present |-> TRUE, cols |-> file.cols, rows |-> file.rows]
                             ELSE NoFile,
                    !.key = IF Uploaded(out.stage) THEN key ELSE NoKey,
                    !.swept = deleted,
                    !.sweep_failed = CleanupRan(out.stage) /\ ~env.cleanup_ok,
                    !.uploads = IF Uploaded(out.stage) \/ out.stage = "upload" THEN 1 ELSE 0,
                    !.heads = IF Uploaded(out.stage) THEN HeadLoop(env.head_failures).heads ELSE 0,
                    !.pauses = IF Uploaded(out.stage) THEN HeadLoop(env.head_failures).pauses ELSE 0,
                    !.audited = Audited(out.stage, env.audit_ok)]
    /\ UNCHANGED <<now, shares, purchases, nextToken, wm, pinned, catalog, bundle, hint, inflight>>

(***************************************************************************)
(* Inputs.                                                                 *)
(***************************************************************************)
Env(cleanup_ok, upload_ok, head_failures, audit_ok, uuid) ==
    [cleanup_ok |-> cleanup_ok, upload_ok |-> upload_ok,
     head_failures |-> head_failures, audit_ok |-> audit_ok, uuid |-> uuid]

QuietEnv == Env(TRUE, TRUE, 0, TRUE, 1)

(* one fault at a time: the sweep, the upload, the HEAD probe, the audit row *)
FaultyEnvs ==
    {Env(FALSE, TRUE, 0, TRUE, 1), Env(TRUE, FALSE, 0, TRUE, 1),
     Env(TRUE, TRUE, 1, TRUE, 1),
     Env(TRUE, TRUE, MaxHeadRetries - 1, TRUE, 1), Env(TRUE, TRUE, MaxHeadRetries, TRUE, 1),
     Env(TRUE, TRUE, 0, FALSE, 1), Env(TRUE, TRUE, MaxHeadRetries, FALSE, 1)}

Basic(t) == [scheme |-> "Basic", token |-> t]

Headers == {NoHeader} \cup {Bearer(t) : t \in 0..MaxTokens}

Body(c, l, p) == [columns |-> c, limit |-> l, preds |-> p]

PCountry == Pred("country", "=", 1, {})
PAmount == Pred("amount", ">=", 20, {})
PIn == Pred("country", "IN", None, {2, 3})
PNull == Pred("amount", "IS NULL", None, {})
PLike == Pred("country", "LIKE", 1, {})
PBogus == Pred("bogus", "=", 1, {})
PNoValue == Pred("amount", ">", None, {})
(* a predicate no row of the table satisfies *)
PNowhere == Pred("country", "=", 9, {})

LimitRequests == {None, 0, 1, 2, 4, 7}

ValidBodies ==
    {Body(<<>>, l, p) : l \in LimitRequests, p \in {<<>>, <<PCountry>>, <<PCountry, PAmount>>}}
    \cup {Body(c, None, <<>>) : c \in {<<"country">>, <<"id", "amount">>, <<"ts", "country">>}}
    \cup {Body(<<>>, None, <<PIn>>), Body(<<>>, None, <<PNull>>), Body(<<>>, None, <<PNowhere>>),
          Body(<<"country">>, 1, <<PAmount>>), Body(<<"ts">>, 4, <<PCountry>>)}

InvalidBodies ==
    {Body(<<>>, None, <<PLike>>), Body(<<>>, 1, <<PCountry, PBogus>>),
     Body(<<"country">>, None, <<PNoValue>>),
     Body(<<"bogus">>, None, <<>>), Body(<<WatermarkIdCol>>, 2, <<PCountry>>)}

Bodies == ValidBodies \cup InvalidBodies

ProbeBodies == {NoBody, Body(<<>>, None, <<PLike>>)}

TableNames == {"events", "other"}
TrialRowRequests == {None, 2}
TrialDayRequests == {None, 1}
LifecycleBuyers == {1}

(***************************************************************************)
(* Spec: the share lifecycle with data-plane queries, at one instant.      *)
(***************************************************************************)
WmIdle == [pc |-> "idle"]

Init ==
    /\ now = 0
    /\ shares = <<>>
    /\ purchases = {}
    /\ nextToken = 1
    /\ objects = {}
    /\ audit = <<>>
    /\ resp = NoResp
    /\ wm = WmIdle
    /\ pinned = None
    /\ catalog = <<>>
    /\ bundle = NoPublished
    /\ hint = <<>>
    /\ inflight = NoRequests

Purchase == \E b \in LifecycleBuyers, d \in DatasetIds \cup {9} : PurchaseDataset(b, d)

Trial ==
    \E b \in LifecycleBuyers, d \in DatasetIds \cup {9} :
        RequestTrial(b, d, 2, 1)

Rotate == \E u \in Sellers, sid \in 1..MaxShares : RotateShareToken(u, sid)

Revoke == \E u \in Sellers, sid \in 1..MaxShares : RevokeShare(u, sid)

Approve == \E u \in Sellers, sid \in 1..MaxShares : ApproveShare(u, sid)

Reject == \E u \in Sellers, sid \in 1..MaxShares : RejectShare(u, sid)

Profile == \E u \in Sellers \cup LifecycleBuyers, sid \in 1..MaxShares : GetShareProfile(u, sid)

Query ==
    \E h \in Headers, sn \in 0..MaxShares :
        QueryTable(h, sn, "events", NoBody, QuietEnv)

Next ==
    \/ Purchase
    \/ Trial
    \/ Rotate
    \/ Revoke
    \/ Approve
    \/ Reject
    \/ Profile
    \/ Query

Spec == Init /\ [][Next]_vars

(***************************************************************************)
(* SpecClock: one share, bought or taken as a trial at time 0, while the   *)
(* clock advances.                                                         *)
(***************************************************************************)
(* the values SELLER_ID takes: unset, the seller of the datasets, another seller *)
PinnedSellers == {None} \cup Sellers

PurchasedShare(d, buyer, token) ==
    NewShare(d, buyer, token, TokenExpiryDays,
             IF Datasets[d].requires_approval THEN "pending" ELSE "approved",
             FALSE, None, None)

TrialShare(d, buyer, token, row_limit, days_valid) ==
    NewShare(d, buyer, token, TrialDays(days_valid), "approved", TRUE,
             TrialRowLimit(row_limit), TrialDays(days_valid))

PurchaseOf(share, sid) ==
    [buyer_id |-> share.buyer_id, dataset_id |-> share.dataset_id, share_id |-> sid]

InitClock ==
    /\ now = 0
    /\ \E s \in {PurchasedShare(1, 1, 1), PurchasedShare(2, 1, 1)}
                \cup {TrialShare(1, 1, 1, r, v) : r \in TrialRowRequests, v \in TrialDayRequests} :
          /\ shares = <<s>>
          /\ purchases = IF s.is_trial THEN {} ELSE {PurchaseOf(s, 1)}
    /\ nextToken = 2
    /\ objects = {}
    /\ audit = <<>>
    /\ resp = NoResp
    /\ wm = WmIdle
    /\ pinned \in PinnedSellers
    /\ catalog = <<>>
    /\ bundle = NoPublished
    /\ hint = <<>>
    /\ inflight = NoRequests

QueryClock ==
    \E h \in {NoHeader, Basic(1), Bearer(0), Bearer(1)}, k \in 1..MaxUuid, c \in BOOLEAN :
        QueryTable(h, 1, "events", NoBody, Env(c, TRUE, 0, TRUE, k))

NextClock ==
    \/ Tick
    \/ Revoke
    \/ Approve
    \/ Reject
    \/ QueryClock

SpecClock == InitClock /\ [][NextClock]_vars

(***************************************************************************)
(* SpecQuery: the query handler over the request bodies.  Share 1 is the   *)
(* share under test (full access, or a trial); share 2 awaits approval.    *)
(* Requests are explored until the audit log holds MaxAudit rows.          *)
(***************************************************************************)
AuditHasRoom == Len(audit) < MaxAudit

InitQuery ==
    /\ now = 0
    /\ \E s \in {PurchasedShare(1, 1, 1)}
                \cup {TrialShare(1, 2, 1, r, None) : r \in TrialRowRequests} :
          /\ shares = <<s, PurchasedShare(2, 1, 2)>>
          /\ purchases = (IF s.is_trial THEN {} ELSE {PurchaseOf(s, 1)})
                         \cup {PurchaseOf(PurchasedShare(2, 1, 2), 2)}
    /\ nextToken = 3
    /\ objects = {}
    /\ audit = <<>>
    /\ resp = NoResp
    /\ wm = WmIdle
    /\ pinned = None
    /\ catalog = <<>>
    /\ bundle = NoPublished
    /\ hint = <<>>
    /\ inflight = NoRequests

QueryServed ==
    /\ AuditHasRoom
    /\ \E b \in Bodies, k \in 1..MaxUuid :
          QueryTable(Bearer(1), 1, "events", b, Env(TRUE, TRUE, 0, TRUE, k))

QueryDenied ==
    /\ AuditHasRoom
    /\ \E h \in {NoHeader, Basic(1), Bearer(0), Bearer(1), Bearer(2)}, sn \in 0..2,
          tn \in TableNames :
        /\ QueryOutcome(h, sn, tn, NoBody, QuietEnv).stage \in {"auth", "path", "table"}
        /\ QueryTable(h, sn, tn, NoBody, QuietEnv)

QueryFaulty ==
    /\ AuditHasRoom
    /\ \E b \in ProbeBodies, e \in FaultyEnvs :
          QueryTable(Bearer(1), 1, "events", b, e)

NextQuery ==
    \/ QueryServed
    \/ QueryDenied
    \/ QueryFaulty

SpecQuery == InitQuery /\ [][NextQuery]_vars

(***************************************************************************)
(* SpecWM: embed and verify as pure functions.  A table (any selection of  *)
(* the rows of the Delta table) is watermarked for one (buyer, share) key  *)
(* and then verified under a key.                                          *)
(***************************************************************************)
WmKeys == {[buyer_id |-> b, share_id |-> sh] : b \in Buyers, sh \in 1..2}

RowsAt(S) == LET idx == Ascending(S) IN [i \in 1..Len(idx) |-> TableRows[idx[i]]]

InitWM ==
    /\ now = 0
    /\ shares = <<>>
    /\ purchases = {}
    /\ nextToken = 1
    /\ objects = {}
    /\ audit = <<>>
    /\ resp = NoResp
    /\ wm = WmIdle
    /\ pinned = None
    /\ catalog = <<>>
    /\ bundle = NoPublished
    /\ hint = <<>>
    /\ inflight = NoRequests

Embed ==
    /\ wm.pc = "idle"
    /\ \E S \in SUBSET (1..Len(TableRows)), k \in WmKeys, is_trial \in BOOLEAN :
          wm' = [pc |-> "embedded",
                 key |-> k,
                 is_trial |-> is_trial,
                 anchor_columns |-> <<"id">>,
                 df |-> ApplyWatermarkToDataframe(
                            Dataframe(SchemaColSet, RowsAt(S)),
                            GenerateWatermark(k.buyer_id, k.share_id), is_trial, <<"id">>)]
    /\ UNCHANGED <<now, shares, purchases, nextToken, objects, audit, resp, pinned, catalog, bundle, hint, inflight>>

Verify ==
    /\ wm.pc = "embedded"
    /\ \E k \in WmKeys :
          wm' = [pc |-> "verified",
                 key |-> wm.key,
                 is_trial |-> wm.is_trial,
                 verify_key |-> k,
                 rows |-> Len(wm.df.rows),
                 result |-> CheckWatermark(wm.df, k.buyer_id, k.share_id, wm.anchor_columns)]
    /\ UNCHANGED <<now, shares, purchases, nextToken, objects, audit, resp, pinned, catalog, bundle, hint, inflight>>

NextWM ==
    \/ Embed
    \/ Verify

SpecWM == InitWM /\ [][NextWM]_vars

(***************************************************************************)
(* SpecCatalog: sellers publish metadata bundles and create datasets.      *)
(***************************************************************************)
PublishSchemas ==
    {SchemaCols, <<"ts", "amount">>, <<"event_time", "amount">>, <<"id", "value">>,
     <<WatermarkIdCol>>}

AnchorChoices == {NoAnchorArgument, <<"id">>, <<"ts", "id">>}
SensitiveChoices == {{}, {"id"}}
RiskScores == {0, RequiresApprovalScore}

(* the bundle with its anchor columns replaced after signing *)
Tampered(metadata) == [metadata EXCEPT !.anchor_columns = <<WatermarkIdCol>>]

(* the bundle rewritten to name another seller, signature kept *)
Reassigned(metadata, seller_id) == [metadata EXCEPT !.seller_id = seller_id]

RequestBundles(current_user) ==
    {NoBundle} \cup
    (IF bundle.metadata.present
     THEN {bundle.metadata, Tampered(bundle.metadata),
           Reassigned(bundle.metadata, current_user)}
     ELSE {})

(* the anchor_columns text of a request; <<>> when absent or blank *)
AnchorStrings == {<<>>, <<"id">>, <<"ts">>}

DatasetRequests(current_user) ==
    {DatasetCreate(a, m) : a \in AnchorStrings, m \in RequestBundles(current_user)}

InitCatalog ==
    /\ now = 0
    /\ shares = <<>>
    /\ purchases = {}
    /\ nextToken = 1
    /\ objects = {}
    /\ audit = <<>>
    /\ resp = NoResp
    /\ wm = WmIdle
    /\ pinned = None
    /\ catalog = <<>>
    /\ bundle = NoPublished
    /\ hint = <<>>
    /\ inflight = NoRequests

Publish ==
    \E schema \in PublishSchemas, seller_id \in Sellers, a \in AnchorChoices,
       sensitive \in SensitiveChoices, risk \in RiskScores :
        PublishStep(schema, seller_id, a, sensitive, risk)

Create ==
    \E current_user \in Sellers :
        \E dataset_data \in DatasetRequests(current_user) :
            CreateDataset(dataset_data, current_user)

NextCatalog ==
    \/ Publish
    \/ Create

SpecCatalog == InitCatalog /\ [][NextCatalog]_vars

(***************************************************************************)
(* SpecAnchor: queries on datasets whose anchor columns do or do not match *)
(* the table schema.  One share, purchased or trial, on a dataset chosen at *)
(* the start.                                                              *)
(***************************************************************************)
AnchorBodies ==
    {NoBody, Body(<<"country">>, None, <<>>), Body(<<"id", "amount">>, 2, <<>>),
     Body(<<"bogus">>, None, <<>>), Body(<<"country", "bogus">>, 1, <<>>),
     Body(<<>>, 1, <<PCountry>>), Body(<<>>, None, <<PLike>>),
     Body(<<"ts">>, 4, <<PCountry>>), Body(<<"amount">>, None, <<>>),
     Body(<<WatermarkIdCol>>, 2, <<>>), Body(<<>>, 2, <<>>),
     Body(<<"id">>, None, <<PNowhere>>)}

InitAnchor ==
    /\ now = 0
    /\ \E d \in {1} \cup MisconfiguredIds :
          \E s \in {PurchasedShare(d, 1, 1)}
                    \cup {TrialShare(d, 1, 1, r, None) : r \in TrialRowRequests} :
              /\ shares = <<s>>
              /\ purchases = IF s.is_trial THEN {} ELSE {PurchaseOf(s, 1)}
    /\ nextToken = 2
    /\ objects = {}
    /\ audit = <<>>
    /\ resp = NoResp
    /\ wm = WmIdle
    /\ pinned = None
    /\ catalog = <<>>
    /\ bundle = NoPublished
    /\ hint = <<>>
    /\ inflight = NoRequests

QueryAnchor ==
    /\ AuditHasRoom
    /\ \E b \in AnchorBodies, k \in 1..MaxUuid :
          QueryTable(Bearer(1), 1, "events", b, Env(TRUE, TRUE, 0, TRUE, k))

NextAnchor == QueryAnchor

SpecAnchor == InitAnchor /\ [][NextAnchor]_vars

(***************************************************************************)
(* SpecListing: the catalog endpoints called with the tokens of two        *)
(* shares, one of which the seller may revoke.                             *)
(***************************************************************************)
ShareNames ==
    {ShareName(k, i) : k \in {"exact", "doubled", "padded", "bare"}, i \in 1..2}
    \cup {ShareName("word", 0)}

SchemaNames == {"default", "other"}

ListingHeaders == {NoHeader, Bearer(0), Bearer(1), Bearer(2)}

InitListing ==
    /\ now = 0
    /\ \E s \in {PurchasedShare(1, 1, 1)}
                \cup {TrialShare(1, 2, 1, r, None) : r \in TrialRowRequests} :
          /\ shares = <<s, PurchasedShare(2, 1, 2)>>
          /\ purchases = (IF s.is_trial THEN {} ELSE {PurchaseOf(s, 1)})
                         \cup {PurchaseOf(PurchasedShare(2, 1, 2), 2)}
    /\ nextToken = 3
    /\ objects = {}
    /\ audit = <<>>
    /\ resp = NoResp
    /\ wm = WmIdle
    /\ pinned = None
    /\ catalog = <<>>
    /\ bundle = NoPublished
    /\ hint = <<>>
    /\ inflight = NoRequests

Shares == \E h \in ListingHeaders : ListShares(h)

Schemas == \E h \in ListingHeaders, sn \in ShareNames : ListSchemas(h, sn)

Tables ==
    \E h \in ListingHeaders, sn \in ShareNames, sc \in SchemaNames : ListTables(h, sn, sc)

TableMetadata ==
    \E h \in ListingHeaders, sn \in ShareNames, sc \in SchemaNames, tn \in TableNames :
        GetTableMetadata(h, sn, sc, tn)

TableVersion ==
    \E h \in ListingHeaders, sn \in ShareNames, sc \in SchemaNames, tn \in TableNames :
        GetTableVersion(h, sn, sc, tn)

RevokeSecond == RevokeShare(10, 2)

NextListing ==
    \/ Shares
    \/ Schemas
    \/ Tables
    \/ TableMetadata
    \/ TableVersion
    \/ RevokeSecond

SpecListing == InitListing /\ [][NextListing]_vars

(***************************************************************************)
(* SpecDSL: the string predicate parser as a pure function over predicate  *)
(* strings inside and outside the grammar.                                 *)
(***************************************************************************)
HintColumns == {"country", "amount", "bogus"}
ComparisonOps == SeqToSet(ComparisonOrder)
HintValues == {"1", "'EE'", "NULL"}

Comparisons == {<<c, o, v>> : c \in HintColumns, o \in ComparisonOps, v \in HintValues}

Atoms == {<<c, o, v>> : c \in {"country", "amount"}, o \in {"=", ">", "!="}, v \in {"1", "'EE'"}}

GrammarHints ==
    Comparisons
    \cup {<<c, "IS", "NULL">> : c \in HintColumns}
    \cup {<<c, "IS", "NOT", "NULL">> : c \in HintColumns}
    \cup {<<c, "IN", "(2,3)">> : c \in HintColumns}

OutsideHints ==
    {<<c, "LIKE", v>> : c \in HintColumns, v \in HintValues}
    \cup {a \o <<"OR">> \o b : a \in Atoms, b \in Atoms}
    \cup {<<c, "IS", "NULL", "OR">> \o a : c \in HintColumns, a \in Atoms}
    \cup {<<"NOT", "(">> \o a \o <<"AND">> \o b \o <<")">> :
              a \in Atoms, b \in {<<"amount", ">", "1">>}}
    \cup {a \o <<"AND", "NOT", "(">> \o b \o <<")">> :
              a \in Atoms, b \in {<<"amount", ">", "1">>}}
    \cup {<<c, "+", "1", o, v>> : c \in HintColumns, o \in ComparisonOps, v \in {"1"}}
    \cup {<<c, o, v, "+", "1">> : c \in HintColumns, o \in ComparisonOps, v \in {"1"}}
    \cup {<<"country", "IN", "(2,3)", "OR", "amount", "IN", "(2,3)">>,
          <<"country", "LIKE", "'EE'", "OR", "amount", "LIKE", "'x'">>}

InitDSL ==
    /\ now = 0
    /\ shares = <<>>
    /\ purchases = {}
    /\ nextToken = 1
    /\ objects = {}
    /\ audit = <<>>
    /\ resp = NoResp
    /\ wm = WmIdle
    /\ pinned = None
    /\ catalog = <<>>
    /\ bundle = NoPublished
    /\ hint \in GrammarHints \cup OutsideHints
    /\ inflight = NoRequests

NextDSL == ParseHint

SpecDSL == InitDSL /\ [][NextDSL]_vars

(***************************************************************************)
(* SpecRewm: the watermarker applied to its own output.  A table is        *)
(* watermarked for one key under a list of anchor columns and the result   *)
(* is watermarked again with the same key and the same anchor columns.     *)
(***************************************************************************)
(* anchor columns: an identifier, a timestamp column, and the default None *)
(* (empty list), under which every column of the row enters the anchor     *)
AnchorLists == {<<"id">>, <<"ts">>, <<"id", "country">>, <<>>}

RowAnchors(df, anchor_columns) ==
    [i \in 1..Len(df.rows) |-> ComputeRowAnchor(df.rows[i], anchor_columns)]

EmbedAnchored ==
    /\ wm.pc = "idle"
    /\ \E S \in SUBSET (1..Len(TableRows)), k \in WmKeys, is_trial \in BOOLEAN,
          anchor_columns \in AnchorLists :
          wm' = [pc |-> "embedded",
                 key |-> k,
                 is_trial |-> is_trial,
                 anchor_columns |-> anchor_columns,
                 input |-> Dataframe(SchemaColSet, RowsAt(S)),
                 df |-> ApplyWatermarkToDataframe(
                            Dataframe(SchemaColSet, RowsAt(S)),
                            GenerateWatermark(k.buyer_id, k.share_id), is_trial,
                            anchor_columns)]
    /\ UNCHANGED <<now, shares, purchases, nextToken, objects, audit, resp, pinned, catalog, bundle, hint, inflight>>

Reapply ==
    /\ wm.pc = "embedded"
    /\ wm' = [pc |-> "reapplied",
              key |-> wm.key,
              is_trial |-> wm.is_trial,
              anchor_columns |-> wm.anchor_columns,
              input |-> wm.input,
              df |-> wm.df,
              again |-> ApplyWatermarkToDataframe(
                            wm.df, GenerateWatermark(wm.key.buyer_id, wm.key.share_id),
                            wm.is_trial, wm.anchor_columns)]
    /\ UNCHANGED <<now, shares, purchases, nextToken, objects, audit, resp, pinned, catalog, bundle, hint, inflight>>

NextRewm ==
    \/ EmbedAnchored
    \/ Reapply

SpecRewm == InitWM /\ [][NextRewm]_vars

(***************************************************************************)
(* SpecVerdict: the decision of check_watermark as a pure function of the  *)
(* counts its two loops produce, for tables of 6 to 80 rows.                *)
(***************************************************************************)
RowCounts == {6, 20, 24, 64, 80}
CheckedCounts == {0, 4, 5, 6, 15, 16, 20, 40}
MatchCounts == {0, 2, 3, 4, 5, 8, 10, 20}

Counts(row_count, checked, matches) ==
    [row_count |-> row_count, checked |-> checked, matches |-> matches]

ChannelCounts(row_count) ==
    {k \in {Counts(row_count, c, m) : c \in CheckedCounts, m \in MatchCounts} :
        k.checked <= row_count /\ k.matches <= k.checked}

(* the result of check_watermark for the counts of the two channels; with  *)
(* anchor_columns_missing the overall found is overwritten with False      *)
Verdict(watermark_column, timestamp, anchor_columns_missing) ==
    LET watermark_column_found ==
            ChannelFound(watermark_column.checked, watermark_column.matches,
                         watermark_column.row_count, WatermarkColThresholdPct)
        timestamp_found ==
            ChannelFound(timestamp.checked, timestamp.matches,
                         timestamp.row_count, TimestampThresholdPct) IN
    [found |-> (watermark_column_found \/ timestamp_found) /\ ~anchor_columns_missing,
     watermark_column_found |-> watermark_column_found,
     timestamp_found |-> timestamp_found]

InitVerdict ==
    /\ now = 0
    /\ shares = <<>>
    /\ purchases = {}
    /\ nextToken = 1
    /\ objects = {}
    /\ audit = <<>>
    /\ resp = NoResp
    /\ \E n \in RowCounts, missing \in BOOLEAN :
          \E w \in ChannelCounts(n), t \in ChannelCounts(n) :
             wm = [pc |-> "counted", row_count |-> n, watermark_column |-> w,
                   timestamp |-> t, anchor_columns_missing |-> missing]
    /\ pinned = None
    /\ catalog = <<>>
    /\ bundle = NoPublished
    /\ hint = <<>>
    /\ inflight = NoRequests

Decide ==
    /\ wm.pc = "counted"
    /\ wm' = [pc |-> "decided", row_count |-> wm.row_count,
              watermark_column |-> wm.watermark_column, timestamp |-> wm.timestamp,
              anchor_columns_missing |-> wm.anchor_columns_missing,
              result |-> Verdict(wm.watermark_column, wm.timestamp,
                                 wm.anchor_columns_missing)]
    /\ UNCHANGED <<now, shares, purchases, nextToken, objects, audit, resp, pinned, catalog, bundle, hint, inflight>>

NextVerdict == Decide

SpecVerdict == InitVerdict /\ [][NextVerdict]_vars

(***************************************************************************)
(* SpecBucket: two approved shares of the same table, held by two buyers,  *)
(* query while the clock advances: the keys of the materialised files and  *)
(* the sweep of old ones.  The shares outlive the clock of the model.      *)
(***************************************************************************)
LongLivedShare(d, buyer, token) ==
    [PurchasedShare(d, buyer, token) EXCEPT !.expires_at = MaxTime + TokenExpiryDays]

(* the 8 hex digits drawn for a key: two values, so that a share can hold  *)
(* two files at once and a draw can repeat                                 *)
HexDraws == {1, 2}

(* no fault, or one of: the sweep fails, the audit write fails *)
BucketEnvs(uuid) ==
    {Env(TRUE, TRUE, 0, TRUE, uuid), Env(FALSE, TRUE, 0, TRUE, uuid),
     Env(TRUE, TRUE, 0, FALSE, uuid)}

(* the first row of the table *)
FirstRowBody == Body(<<>>, 1, <<>>)

InitBucket ==
    /\ now = 0
    /\ shares = <<LongLivedShare(1, 1, 1), LongLivedShare(1, 2, 2)>>
    /\ purchases = {PurchaseOf(LongLivedShare(1, 1, 1), 1), PurchaseOf(LongLivedShare(1, 2, 2), 2)}
    /\ nextToken = 3
    /\ objects = {}
    /\ audit = <<>>
    /\ resp = NoResp
    /\ wm = WmIdle
    /\ pinned = None
    /\ catalog = <<>>
    /\ bundle = NoPublished
    /\ hint = <<>>
    /\ inflight = NoRequests

QueryBucket ==
    /\ AuditHasRoom
    /\ \E s \in 1..2, k \in HexDraws :
          \E e \in BucketEnvs(k) : QueryTable(Bearer(s), s, "events", FirstRowBody, e)

NextBucket ==
    \/ Tick
    \/ QueryBucket

SpecBucket == InitBucket /\ [][NextBucket]_vars

(***************************************************************************)
(* SpecPurchase: purchase_dataset statement by statement, for requests of  *)
(* one buyer handled by two workers of the marketplace on one database.    *)
(* A request reads the existing share, commits the Share row, commits the  *)
(* Purchase row and answers; a commit of the Purchase row may fail.        *)
(***************************************************************************)
Workers == {1, 2}

Idle == [pc |-> "idle", buyer |-> 0, dataset_id |-> 0, share_id |-> 0, status |-> 0]

(* a request at statement pc; share_id is the Share row it committed *)
At(call, pc) == [call EXCEPT !.pc = pc]

Answered(call, status) == [call EXCEPT !.pc = "answered", !.status = status]

(* the request arrives *)
BeginPurchase(w, buyer, d) ==
    /\ inflight[w].pc \in {"idle", "answered"}
    /\ inflight' = [inflight EXCEPT ![w] =
                       [pc |-> "check", buyer |-> buyer, dataset_id |-> d,
                        share_id |-> 0, status |-> 0]]
    /\ resp' = NoResp
    /\ UNCHANGED <<now, shares, purchases, nextToken, objects, audit, wm, pinned, catalog,
                   bundle, hint>>

(* the dataset lookup and the existing_share query *)
CheckPurchase(w) ==
    LET call == inflight[w]
        d == call.dataset_id
        status == IF d \notin DOMAIN Datasets THEN 404
                  ELSE IF ~Datasets[d].is_public /\ Datasets[d].seller_id # call.buyer THEN 403
                  ELSE IF \E s \in ShareIds :
                             shares[s].dataset_id = d /\ shares[s].buyer_id = call.buyer
                       THEN 400
                  ELSE 200 IN
    /\ call.pc = "check"
    /\ inflight' = [inflight EXCEPT ![w] =
                       IF status = 200 THEN At(call, "add_share") ELSE Answered(call, status)]
    /\ resp' = IF status = 200 THEN NoResp ELSE Response("purchase", status, 0)
    /\ UNCHANGED <<now, shares, purchases, nextToken, objects, audit, wm, pinned, catalog,
                   bundle, hint>>

(* db.add(share); db.commit() *)
AddShare(w) ==
    LET call == inflight[w]
        d == call.dataset_id
        share == NewShare(d, call.buyer, nextToken, now + TokenExpiryDays,
                          IF Datasets[d].requires_approval THEN "pending" ELSE "approved",
                          FALSE, None, None) IN
    /\ call.pc = "add_share"
    /\ Len(shares) <= MaxShares
    /\ shares' = Append(shares, share)
    /\ nextToken' = nextToken + 1
    /\ inflight' = [inflight EXCEPT ![w] =
                       [At(call, "add_purchase") EXCEPT !.share_id = Len(shares) + 1]]
    /\ resp' = NoResp
    /\ UNCHANGED <<now, purchases, objects, audit, wm, pinned, catalog, bundle, hint>>

(* db.add(purchase); db.commit(): committed and answered 200, or an        *)
(* exception, which the handler answers with 500                           *)
AddPurchase(w, committed) ==
    LET call == inflight[w] IN
    /\ call.pc = "add_purchase"
    /\ purchases' = IF committed
                    THEN purchases \cup {[buyer_id |-> call.buyer,
                                          dataset_id |-> call.dataset_id,
                                          share_id |-> call.share_id]}
                    ELSE purchases
    /\ inflight' = [inflight EXCEPT ![w] = Answered(call, IF committed THEN 200 ELSE 500)]
    /\ resp' = Response("purchase", IF committed THEN 200 ELSE 500,
                        IF committed THEN call.share_id ELSE 0)
    /\ UNCHANGED <<now, shares, nextToken, objects, audit, wm, pinned, catalog, bundle, hint>>

InitPurchase ==
    /\ now = 0
    /\ shares = <<>>
    /\ purchases = {}
    /\ nextToken = 1
    /\ objects = {}
    /\ audit = <<>>
    /\ resp = NoResp
    /\ wm = WmIdle
    /\ pinned = None
    /\ catalog = <<>>
    /\ bundle = NoPublished
    /\ hint = <<>>
    /\ inflight = [w \in Workers |-> Idle]

Begin == \E w \in Workers, b \in LifecycleBuyers, d \in DatasetIds \cup {9} : BeginPurchase(w, b, d)

Check == \E w \in Workers : CheckPurchase(w)

StoreShare == \E w \in Workers : AddShare(w)

StorePurchase == \E w \in Workers, committed \in BOOLEAN : AddPurchase(w, committed)

NextPurchase ==
    \/ Begin
    \/ Check
    \/ StoreShare
    \/ StorePurchase

SpecPurchase == InitPurchase /\ [][NextPurchase]_vars

(***************************************************************************)
(* Properties of the token guard and of revocation.                        *)
(***************************************************************************)
Served == resp.op = "query" /\ resp.share # 0

(* C1: a data-plane request is served (the guard returns the share) only   *)
(* if at that moment the share is approved, not revoked, now < expires_at  *)
(* and, for a trial, now < trial_expires_at; an unset expiry and the       *)
(* instant now = expires_at are not served.  Stated under SpecClock.       *)
C1_ServedOnlyWhileValid ==
    Served =>
        LET share == shares[resp.share] IN
        /\ share.approval_status = "approved"
        /\ ~share.revoked
        /\ share.expires_at # None /\ now < share.expires_at
        /\ share.is_trial => share.trial_expires_at # None /\ now < share.trial_expires_at

TokenOfRevokedShare(token) ==
    \E s \in ShareIds : shares[s].revoked /\ shares[s].token = token

(* C2: revocation is monotonic.  No step resets revoked to false, and a    *)
(* query that presents the token of a revoked share is answered 401 and    *)
(* leaves the object store as it was, whatever approve, reject, rotate and *)
(* revoke calls came in between.  Stated under Spec.                       *)
C2_RevocationMonotonic ==
    [][/\ \A s \in ShareIds : shares[s].revoked => shares'[s].revoked
       /\ (resp'.op = "query" /\ TokenOfRevokedShare(resp'.token)) =>
              /\ resp'.status = 401
              /\ resp'.share = 0
              /\ ~resp'.file.present
              /\ objects' = objects]_vars

(* a revoked share that a later approve call marked approved, queried with *)
(* its own token and refused                                               *)
C2_Witness ==
    /\ resp.op = "query"
    /\ resp.status = 401
    /\ \E s \in ShareIds :
          /\ shares[s].revoked
          /\ shares[s].approval_status = "approved"
          /\ shares[s].token = resp.token
          /\ ~shares[s].is_trial
          /\ Datasets[shares[s].dataset_id].requires_approval

(***************************************************************************)
(* Properties of the query handler, stated under SpecQuery.                *)
(***************************************************************************)
QueryOk == resp.op = "query" /\ resp.status = 200

Delivered == Len(resp.file.rows)

RequestedSet == SeqToSet(resp.body.columns)

(* C3: a successful query on a trial share with trial_row_limit = L        *)
(* delivers at most L rows whatever limit the body carries, and the        *)
(* effective limit is min(requested_limit, L) when the body carries one.   *)
C3_TrialRowCap ==
    (QueryOk /\ shares[resp.share].is_trial) =>
        LET L == shares[resp.share].trial_row_limit IN
        /\ Delivered <= L
        /\ resp.body.limit # None => resp.limit = Min(resp.body.limit, L)

(* the audit row the handler owes for the file in resp *)
OwedAuditRow(r) ==
    [buyer_id |-> shares[r.share].buyer_id,
     dataset_id |-> shares[r.share].dataset_id,
     share_id |-> r.share,
     row_count_returned |-> Len(r.file.rows)]

AuditRowKey(row) ==
    [buyer_id |-> row.buyer_id, dataset_id |-> row.dataset_id,
     share_id |-> row.share_id, row_count_returned |-> row.row_count_returned]

AppendedOwedRow ==
    /\ Len(audit') = Len(audit) + 1
    /\ SubSeq(audit', 1, Len(audit)) = audit
    /\ AuditRowKey(audit'[Len(audit')]) = OwedAuditRow(resp')

(* C5 as stated: every query answered 2xx has appended exactly one audit   *)
(* row, with the share, buyer and dataset of the authenticated share and   *)
(* row_count_returned equal to the rows of the delivered file.             *)
C5_OneAuditRowPer2xx ==
    [][(resp'.op = "query" /\ resp'.status = 200) => AppendedOwedRow]_vars

(* C5 amended: a query answered 2xx whose audit write went through has     *)
(* appended exactly one such row; when the audit write fails the query is  *)
(* answered 2xx all the same and the audit log is left as it was.          *)
C5_OneAuditRowUnlessWriteFails ==
    [][(resp'.op = "query" /\ resp'.status = 200) =>
          IF resp'.audited THEN AppendedOwedRow ELSE audit' = audit]_vars

(* a filtered, limited query that delivered fewer rows than the table has  *)
(* and whose audit row is the last of the log                              *)
C5_Witness ==
    /\ QueryOk
    /\ resp.audited
    /\ resp.body.preds # <<>>
    /\ resp.body.limit # None
    /\ Delivered >= 1 /\ Delivered < Len(TableRows)
    /\ audit # <<>>
    /\ AuditRowKey(audit[Len(audit)]) = OwedAuditRow(resp)

(* C6: a rejected query (401 or 403 from the token guard, 400 for an       *)
(* invalid predicate or an unknown requested column) uploads no object     *)
(* and appends no audit row.                                               *)
C6_RejectedLeavesNoTrace ==
    [][(resp'.op = "query" /\ resp'.status \in {400, 401, 403}) =>
          /\ objects' \subseteq objects
          /\ resp'.key = NoKey
          /\ ~resp'.file.present
          /\ audit' = audit
          /\ ~resp'.audited]_vars

(* a 400 for a request with predicates, answered while an earlier file is  *)
(* still in the object store                                               *)
C6_Witness ==
    /\ resp.op = "query"
    /\ resp.status = 400
    /\ resp.body.preds # <<>>
    /\ objects # {}
    /\ resp.key = NoKey

(* positions of the rows of the table that satisfy every predicate *)
Satisfying(preds) ==
    {i \in 1..Len(TableRows) : \A k \in 1..Len(preds) : PredicateHolds(preds[k], TableRows[i])}

(* C7: the limit is applied after the filter.  A successful query with     *)
(* predicates P and effective limit n delivers exactly the first           *)
(* min(n, number of rows satisfying P) satisfying rows in scanner order,   *)
(* and every delivered row satisfies every predicate of P.                 *)
C7_LimitAfterFilter ==
    QueryOk =>
        LET sat == Ascending(Satisfying(resp.body.preds))
            k == IF resp.limit = None THEN Len(sat) ELSE Min(resp.limit, Len(sat)) IN
        /\ resp.idx = SubSeq(sat, 1, k)
        /\ Delivered = k
        /\ \A i \in 1..Delivered :
              \A c \in (DOMAIN resp.file.rows[i]) \ (TimestampCols \cup {WatermarkIdCol}) :
                  resp.file.rows[i][c] = TableRows[resp.idx[i]][c]

(* a limit that cut the satisfying rows short, after rows that do not      *)
(* satisfy the predicates were skipped                                     *)
C7_Witness ==
    /\ QueryOk
    /\ resp.body.preds # <<>>
    /\ resp.limit # None
    /\ Delivered = resp.limit
    /\ Cardinality(Satisfying(resp.body.preds)) > resp.limit
    /\ resp.idx[Delivered] > Delivered

(* C8: the delivered columns are among the requested ones (all table       *)
(* columns when none are requested) plus _watermark_id for trial shares;   *)
(* an anchor column the buyer did not request is read for watermarking     *)
(* and never delivered.                                                    *)
C8_ProjectionSafety ==
    QueryOk =>
        LET allowed == (IF RequestedSet = {} THEN SchemaColSet ELSE RequestedSet)
                       \cup (IF shares[resp.share].is_trial THEN {WatermarkIdCol} ELSE {})
            anchors == SeqToSet(AnchorColumnsList(Datasets[shares[resp.share].dataset_id])) IN
        /\ resp.file.cols \subseteq allowed
        /\ \A i \in 1..Delivered : DOMAIN resp.file.rows[i] = resp.file.cols
        /\ anchors \subseteq ColumnsToRead(RequestedSet, AnchorColumnsList(Datasets[shares[resp.share].dataset_id]))
        /\ \A a \in anchors : (RequestedSet # {} /\ a \notin RequestedSet) => a \notin resp.file.cols

(* a projection that leaves the anchor column out, with rows delivered     *)
C8_Witness ==
    /\ QueryOk
    /\ RequestedSet # {}
    /\ "id" \notin RequestedSet
    /\ "id" \notin resp.file.cols
    /\ resp.file.cols # {}
    /\ Delivered >= 1

(* C9: a successful query on a trial share that delivers at least one row  *)
(* delivers the _watermark_id column, also under an explicit projection    *)
(* that does not list it.                                                  *)
C9_TrialDeliversWatermarkId ==
    (QueryOk /\ shares[resp.share].is_trial /\ Delivered >= 1) =>
        /\ WatermarkIdCol \in resp.file.cols
        /\ \A i \in 1..Delivered : WatermarkIdCol \in DOMAIN resp.file.rows[i]

(* C10: a successful query on a full-access share whose body carries       *)
(* limit = n, n >= 0, delivers at most n rows.                             *)
C10_FullAccessLimit ==
    (QueryOk /\ ~shares[resp.share].is_trial /\ resp.body.limit # None) =>
        Delivered <= resp.body.limit

(***************************************************************************)
(* Properties of embed and verify, stated under SpecWM.                    *)
(***************************************************************************)
(* C4: attribution distinguishes recipients.  A table watermarked for key  *)
(* k1, full-access or trial, does not verify under a different key k2.     *)
C4_AttributionDistinguishesKeys ==
    (wm.pc = "verified" /\ wm.verify_key # wm.key) => ~wm.result.found

(* in the model, a verification under a different key succeeds only        *)
(* through the _watermark_id column of a trial table                       *)
ForeignKeyVerifiesOnlyByWatermarkId ==
    (wm.pc = "verified" /\ wm.verify_key # wm.key /\ wm.result.found) =>
        /\ wm.is_trial
        /\ wm.result.watermark_column_found
        /\ ~wm.result.timestamp_found

(***************************************************************************)
(* Status codes of the guard, stated under SpecClock.                      *)
(***************************************************************************)
GuardFailed == resp.op = "query" /\ resp.status # 200

BadHeader == resp.scheme # "Bearer"

(* the share the guard matched for the token in resp; 0 when none *)
MatchedShare ==
    IF BadHeader \/ MatchingShares(resp.token) = {} THEN 0
    ELSE MinOf(MatchingShares(resp.token))

Cause401 ==
    \/ BadHeader
    \/ MatchedShare = 0
    \/ shares[MatchedShare].revoked
    \/ IsTokenExpired(shares[MatchedShare].expires_at)
    \/ shares[MatchedShare].is_trial /\ IsTokenExpired(shares[MatchedShare].trial_expires_at)

Cause403 ==
    /\ MatchedShare # 0
    /\ \/ shares[MatchedShare].approval_status # "approved"
       \/ SELLER_ID # None /\ shares[MatchedShare].seller_id # SELLER_ID

(* C11: a query that fails the guard is answered 401 or 403; 401 only for  *)
(* a missing or malformed header, an unknown token, a revoked share, an    *)
(* expired share or an expired trial, and always when that is the only     *)
(* kind of failure present; 403 only for a share that is not approved or   *)
(* belongs to another seller than the pinned one, and always when that is  *)
(* the only kind of failure present.                                       *)
C11_GuardStatusCodes ==
    GuardFailed =>
        /\ resp.status \in {401, 403}
        /\ resp.share = 0
        /\ resp.status = 401 => Cause401
        /\ resp.status = 403 => Cause403
        /\ (Cause401 /\ ~Cause403) => resp.status = 401
        /\ (Cause403 /\ ~Cause401) => resp.status = 403

(* a share of seller 10 refused with 403 by a server pinned to seller 11,  *)
(* although it is approved, not revoked and not expired                    *)
C11_Witness ==
    /\ GuardFailed
    /\ resp.status = 403
    /\ MatchedShare # 0
    /\ shares[MatchedShare].approval_status = "approved"
    /\ ~Cause401
    /\ SELLER_ID # None

(***************************************************************************)
(* Failure of the audit write, stated under SpecQuery.                     *)
(***************************************************************************)
(* the handler built its answer and the audit row was not written *)
AuditWriteFailed == resp.op = "query" /\ resp.file.present /\ ~resp.audited

(* C12: when appending or committing the audit row fails, the query is     *)
(* still answered 200 with the file the same request yields when the write *)
(* succeeds, and the uploaded object stays.                                *)
C12_AuditFailureStillServes ==
    AuditWriteFailed =>
        LET file == MaterialisedFile(resp.share, resp.body)
            quiet == QueryOutcome(Bearer(resp.token), resp.share, "events", resp.body,
                                  Env(TRUE, TRUE, 0, TRUE, resp.key.uuid)) IN
        /\ resp.status = 200
        /\ quiet.status = 200
        /\ resp.file = [present |-> TRUE, cols |-> file.cols, rows |-> file.rows]
        /\ \E o \in objects : o.key = resp.key

(* a query that delivered rows while its audit write failed *)
C12_Witness ==
    /\ AuditWriteFailed
    /\ resp.status = 200
    /\ Len(resp.file.rows) > 0

(***************************************************************************)
(* Empty results, stated under SpecQuery.                                  *)
(***************************************************************************)
EmptyScan == QueryOk /\ resp.idx = <<>>

(* C13: a query whose scan yields no rows answers 200 with no file line,   *)
(* leaves the rows unwatermarked and uploads no Parquet object.            *)
C13_EmptyScanNoFileNoUpload ==
    EmptyScan =>
        /\ ~resp.file.present
        /\ resp.key = NoKey
        /\ \A o \in objects : o.key # KeyOf(resp.share, resp.key.uuid)

(* what the handler does for an empty scan: one file line for an uploaded  *)
(* object that holds no rows                                               *)
EmptyScanServedAsEmptyFile ==
    EmptyScan =>
        /\ resp.file.present
        /\ resp.file.rows = <<>>
        /\ \E o \in objects : o.key = resp.key

(***************************************************************************)
(* Properties of the dataset catalog, stated under SpecCatalog.            *)
(***************************************************************************)
SuitableAnchors(anchor_columns) ==
    /\ anchor_columns # <<>>
    /\ SeqToSet(anchor_columns) \cap TimestampTyped = {}
    /\ WatermarkIdCol \notin SeqToSet(anchor_columns)

(* C14: every stored dataset has a non-empty anchor_columns list without   *)
(* timestamp columns and without _watermark_id, and so has every list that *)
(* detect_anchor_columns_from_schema chose.                                *)
C14_StoredAnchorsSuitable ==
    /\ \A i \in DOMAIN catalog : SuitableAnchors(catalog[i].anchor_columns)
    /\ (bundle.metadata.present /\ bundle.detected) =>
           SuitableAnchors(bundle.metadata.anchor_columns)

(* the part that holds: a stored list is never empty and a detected list   *)
(* never holds _watermark_id                                               *)
StoredAnchorsNonEmpty ==
    /\ \A i \in DOMAIN catalog : catalog[i].anchor_columns # <<>>
    /\ (bundle.metadata.present /\ bundle.detected) =>
           /\ bundle.metadata.anchor_columns # <<>>
           /\ WatermarkIdCol \notin SeqToSet(bundle.metadata.anchor_columns)

ValidBundle(dataset_data, current_user) ==
    /\ dataset_data.metadata_bundle.present
    /\ ValidateMetadataSignature(dataset_data.metadata_bundle, current_user)
    /\ dataset_data.metadata_bundle.seller_id = current_user

(* C15: create_dataset stores a dataset only for a request whose bundle    *)
(* has a valid signature and names the authenticated seller; every other   *)
(* request is answered 400 and leaves the catalog as it was.               *)
C15_StoresOnlySignedBundles ==
    [][\A current_user \in Sellers :
          \A dataset_data \in DatasetRequests(current_user) :
              CreateDataset(dataset_data, current_user) =>
                  IF ValidBundle(dataset_data, current_user)
                  THEN Len(catalog') = Len(catalog) + 1
                  ELSE resp'.status = 400 /\ catalog' = catalog]_vars

(* the part that holds: a request that carries a bundle is stored only if  *)
(* the bundle is valid                                                     *)
BundleRequestsStoredOnlyIfValid ==
    [][\A current_user \in Sellers :
          \A dataset_data \in DatasetRequests(current_user) :
              (CreateDataset(dataset_data, current_user)
                 /\ dataset_data.metadata_bundle.present) =>
                  IF ValidBundle(dataset_data, current_user)
                  THEN Len(catalog') = Len(catalog) + 1
                  ELSE resp'.status = 400 /\ catalog' = catalog]_vars

(***************************************************************************)
(* Approval states, stated under Spec.                                     *)
(***************************************************************************)
Rejected(s) == shares[s].approval_status = "rejected"

QueriedWithTokenOf(r, s) ==
    r.op = "query" /\ r.scheme = "Bearer" /\ r.token = shares[s].token

(* C16 as stated: once rejected, a share stays rejected whatever call      *)
(* follows, and is never served.                                           *)
C16_RejectedTerminal ==
    [][\A s \in ShareIds : Rejected(s) =>
          /\ shares'[s].approval_status = "rejected"
          /\ QueriedWithTokenOf(resp', s) => resp'.share = 0]_vars

(* C16 as the code has it: a rejected share leaves that state only through *)
(* a successful approve call of its seller, which makes it approved; the   *)
(* reject, rotate-token, revoke and profile calls leave it rejected, none  *)
(* makes it pending, and a query with its token is refused while it is     *)
(* rejected, leaving the object store as it was.                           *)
C16_RejectedUntilApproved ==
    [][\A s \in ShareIds : Rejected(s) =>
          /\ shares'[s].approval_status \in {"rejected", "approved"}
          /\ shares'[s].approval_status = "approved" => resp' = Response("approve", 200, s)
          /\ QueriedWithTokenOf(resp', s) =>
                 /\ resp'.share = 0
                 /\ resp'.status \in {401, 403}
                 /\ objects' = objects]_vars

(* a rejected, unrevoked share queried with its own token and refused *)
C16_Witness ==
    /\ resp.op = "query"
    /\ resp.status = 403
    /\ \E s \in ShareIds :
          /\ Rejected(s)
          /\ ~shares[s].revoked
          /\ QueriedWithTokenOf(resp, s)

NeedsApproval(share) == Datasets[share.dataset_id].requires_approval

InitialStatus(share) == IF NeedsApproval(share) THEN "pending" ELSE "approved"

BecomesApproved(s) ==
    /\ shares'[s].approval_status = "approved"
    /\ s \in ShareIds => shares[s].approval_status # "approved"

(* C17: a share created by purchase or by a trial request starts pending   *)
(* when its dataset requires approval and approved otherwise, and a share  *)
(* on an approval-required dataset becomes approved, hence servable, only  *)
(* through the seller's approve call.                                      *)
C17_PendingUntilSellerApproves ==
    [][\A s \in DOMAIN shares' :
          /\ s \notin ShareIds => shares'[s].approval_status = InitialStatus(shares'[s])
          /\ (NeedsApproval(shares'[s]) /\ BecomesApproved(s)) =>
                 resp' = Response("approve", 200, s)]_vars

(* the part that holds: the same for shares created by purchase *)
PurchasedPendingUntilSellerApproves ==
    [][\A s \in DOMAIN shares' : ~shares'[s].is_trial =>
          /\ s \notin ShareIds => shares'[s].approval_status = InitialStatus(shares'[s])
          /\ (NeedsApproval(shares'[s]) /\ BecomesApproved(s)) =>
                 resp' = Response("approve", 200, s)]_vars

(***************************************************************************)
(* Anchor and requested columns, stated under SpecAnchor.                  *)
(***************************************************************************)
Authenticated == resp.op = "query" /\ resp.share # 0

ConfiguredAnchors == Datasets[shares[resp.share].dataset_id].anchor_columns

NothingDelivered == ~resp.file.present /\ resp.key = NoKey

(* C18: a query on a dataset with an anchor column that the table schema   *)
(* lacks, or with no anchor column configured, is answered 500 and         *)
(* delivers nothing; with sound anchor columns, a requested column that    *)
(* the schema lacks is answered 400.                                       *)
C18_MissingAnchor500MissingColumn400 ==
    Authenticated =>
        /\ (ConfiguredAnchors = <<>> \/ ~(SeqToSet(ConfiguredAnchors) \subseteq SchemaColSet)) =>
               resp.status = 500 /\ NothingDelivered
        /\ (SeqToSet(ConfiguredAnchors) \subseteq SchemaColSet
              /\ ConfiguredAnchors # <<>>
              /\ ParseQueryPredicates(resp.body) = 200
              /\ ~(RequestedSet \subseteq SchemaColSet)) =>
               resp.status = 400 /\ NothingDelivered

(* the part that holds: 500 when no configured anchor column is in the     *)
(* schema, 400 for a requested column the schema lacks                     *)
NoUsableAnchor500MissingColumn400 ==
    Authenticated =>
        /\ SeqToSet(ConfiguredAnchors) \cap SchemaColSet = {} =>
               resp.status = 500 /\ NothingDelivered
        /\ (SeqToSet(ConfiguredAnchors) \cap SchemaColSet # {}
              /\ ParseQueryPredicates(resp.body) = 200
              /\ ~(RequestedSet \subseteq SchemaColSet)) =>
               resp.status = 400 /\ NothingDelivered

(***************************************************************************)
(* Isolation of the catalog endpoints, stated under SpecListing.           *)
(***************************************************************************)
CatalogOk ==
    resp.op \in {"list_shares", "list_schemas", "list_tables", "metadata", "version"}
    /\ resp.status = 200

OwnTable == Datasets[shares[resp.share].dataset_id].table_name

OwnName == ShareName("exact", resp.share)

(* C19: a catalog request answered 200 with the token of share A names     *)
(* exactly share_<A.id>, the schema default and the table of A's dataset   *)
(* wherever the path has them, and a listing returns that triplet only.    *)
C19_OnlyOwnTriplet ==
    CatalogOk =>
        /\ resp.share # 0
        /\ resp.token \in {shares[resp.share].token}
        /\ resp.op # "list_shares" => resp.path.share_name = OwnName
        /\ resp.op \in {"list_tables", "metadata", "version"} =>
               resp.path.schema_name = "default"
        /\ resp.op \in {"metadata", "version"} => resp.path.table_name = OwnTable
        /\ resp.op = "list_shares" => resp.items = {Item(OwnName, "", "")}
        /\ resp.op = "list_schemas" => resp.items = {Item(OwnName, "default", "")}
        /\ resp.op = "list_tables" => resp.items = {Item(OwnName, "default", OwnTable)}

(* the part that holds: the share id read from the path is A's id, the     *)
(* table is A's, and a listing names no other share id and no other table  *)
OnlyOwnShareIdAndTable ==
    CatalogOk =>
        /\ resp.share # 0
        /\ resp.token \in {shares[resp.share].token}
        /\ resp.op # "list_shares" => resp.path.share_name.id = resp.share
        /\ resp.op \in {"metadata", "version"} => resp.path.table_name = OwnTable
        /\ \A i \in resp.items :
               /\ i.share.id = resp.share
               /\ i.table \in {"", OwnTable}

(***************************************************************************)
(* The predicate grammar, stated under SpecDSL.                            *)
(***************************************************************************)
IsName(w) == w \in SchemaColSet \cup {"bogus"}

IsLiteral(w) == w \in IntWords \cup QuotedWords \cup KeywordValues

(* the grammar: col op literal, col IN ( v, ... ), col IS NULL, col IS NOT NULL *)
InGrammar(s) ==
    \/ Len(s) = 3 /\ IsName(s[1]) /\ s[2] \in ComparisonOps /\ IsLiteral(s[3])
    \/ Len(s) = 3 /\ IsName(s[1]) /\ s[2] = "IN" /\ s[3] \in ListWords
    \/ Len(s) = 3 /\ IsName(s[1]) /\ SubSeq(s, 2, 3) = <<"IS", "NULL">>
    \/ Len(s) = 4 /\ IsName(s[1]) /\ SubSeq(s, 2, 4) = <<"IS", "NOT", "NULL">>

Parsed == resp.op = "parse"

(* C20: a predicate string outside the grammar is answered 400. *)
C20_OutsideGrammarRefused ==
    (Parsed /\ ~InGrammar(hint)) => resp.status = 400

(* the part that holds: a string without comparison operator, IS NULL or   *)
(* IN list, such as a LIKE, is answered 400, and so is every string whose  *)
(* text before the first operator found is not a column of the table       *)
NoOperatorOrNoColumnRefused ==
    Parsed =>
        /\ (FirstComparison(hint) = 0 /\ FindAfterFirst(hint, <<"IS", "NULL">>) = 0
              /\ FindAfterFirst(hint, <<"IS", "NOT", "NULL">>) = 0 /\ FindList(hint) = 0) =>
               resp.status = 400
        /\ Head(hint) \notin SchemaColSet => resp.status = 400
        /\ (InGrammar(hint) /\ Head(hint) \in SchemaColSet) => resp.status = 200

(***************************************************************************)
(* Idempotence of the watermarker, stated under SpecRewm.                  *)
(***************************************************************************)
Reapplied == wm.pc = "reapplied"

(* the timestamp columns the watermarker rewrites are among the columns    *)
(* the row anchor is computed from                                         *)
AnchorReadsTimestamp(anchor_columns) ==
    anchor_columns = <<>> \/ SeqToSet(anchor_columns) \cap TimestampCols # {}

(* C21: watermarking its own output with the same key and the same anchor  *)
(* columns returns that output, for full access and for a trial, and the   *)
(* row anchors of the output are those of the input.                       *)
C21_WatermarkIdempotent ==
    Reapplied =>
        /\ wm.again = wm.df
        /\ RowAnchors(wm.df, wm.anchor_columns) = RowAnchors(wm.input, wm.anchor_columns)

(* the part that holds: idempotent, with stable anchors, whenever no       *)
(* anchor column is a timestamp column                                     *)
IdempotentUnlessAnchorReadsTimestamp ==
    (Reapplied /\ ~AnchorReadsTimestamp(wm.anchor_columns)) =>
        /\ wm.again = wm.df
        /\ RowAnchors(wm.df, wm.anchor_columns) = RowAnchors(wm.input, wm.anchor_columns)

IdempotentWitness ==
    /\ Reapplied
    /\ ~AnchorReadsTimestamp(wm.anchor_columns)
    /\ wm.is_trial
    /\ Len(wm.df.rows) >= 2
    /\ wm.df # wm.input

(***************************************************************************)
(* The verifier's decision, stated under SpecVerdict.                      *)
(***************************************************************************)
Decided == wm.pc = "decided"

(* min(20, max(5, rows/4)), the division rounded down *)
RequiredSample(rows) ==
    LET quarter == rows \div 4
        atLeastFive == IF quarter > 5 THEN quarter ELSE 5 IN
    IF atLeastFive < 20 THEN atLeastFive ELSE 20

(* a channel is declared found with at least `needed` matches *)
DeclaredWith(counts, needed, threshold_pct) ==
    /\ counts.checked >= RequiredSample(counts.row_count)
    /\ counts.matches >= needed
    /\ counts.matches * 100 >= threshold_pct * counts.checked

(* the larger of 3 and a quarter of the required sample, rounded down *)
RequiredMatches(rows) ==
    IF RequiredSample(rows) \div 4 > 3 THEN RequiredSample(rows) \div 4 ELSE 3

(* C22: a channel is found exactly when the rows checked number at least   *)
(* min(20, max(5, rows/4)), at least 3 of them match and the match rate    *)
(* reaches 50% (_watermark_id) or 15% (timestamps); the overall found is   *)
(* the disjunction of the two channels.                                    *)
C22_FoundWithThreeMatches ==
    Decided =>
        /\ wm.result.watermark_column_found <=> DeclaredWith(wm.watermark_column, 3, 50)
        /\ wm.result.timestamp_found <=> DeclaredWith(wm.timestamp, 3, 15)
        /\ wm.result.found <=>
               (wm.result.watermark_column_found \/ wm.result.timestamp_found)

(* C22, amended: the matches needed are max(3, sample/4) for the required  *)
(* sample, and the overall found is the disjunction of the two channels    *)
(* unless none of the anchor columns is in the table, when it is false.    *)
C22_FoundWithQuarterOfSample ==
    Decided =>
        /\ wm.result.watermark_column_found <=>
               DeclaredWith(wm.watermark_column, RequiredMatches(wm.row_count), 50)
        /\ wm.result.timestamp_found <=>
               DeclaredWith(wm.timestamp, RequiredMatches(wm.row_count), 15)
        /\ wm.result.found <=>
               /\ wm.result.watermark_column_found \/ wm.result.timestamp_found
               /\ ~wm.anchor_columns_missing

(* a table of 80 rows with 20 timestamps checked: 4 matches reach 15% and  *)
(* are refused, 5 are accepted                                             *)
C22_Witness ==
    /\ Decided
    /\ wm.row_count = 80
    /\ wm.timestamp = Counts(80, 20, 5)
    /\ wm.watermark_column = Counts(80, 20, 4)
    /\ wm.result.timestamp_found
    /\ ~wm.result.watermark_column_found
    /\ wm.result.found

(***************************************************************************)
(* The embedder's and the verifier's formula, stated under SpecWM.         *)
(***************************************************************************)
EmbeddedKey == GenerateWatermark(wm.key.buyer_id, wm.key.share_id)

EmbeddedAnchor(i) == ComputeRowAnchor(wm.df.rows[i], wm.anchor_columns)

Stamped == {i \in 1..Len(wm.df.rows) : wm.df.rows[i]["ts"] # Null}

(* C23: the microseconds the embedder writes into a timestamp are          *)
(* (B[anchor mod len(B)] * 12500 + seed mod 10000) mod 1000000, the value  *)
(* the verifier expects, so under the embedding key every non-null         *)
(* timestamp of a freshly watermarked table matches.                       *)
C23_EmbedUsesVerifierFormula ==
    /\ wm.pc = "embedded" =>
          \A i \in Stamped :
             wm.df.rows[i]["ts"] % 1000000 =
                 (EmbeddedKey[(EmbeddedAnchor(i) % WatermarkLen) + 1] * 12500
                    + SeedMod(EmbeddedKey, 10000)) % 1000000
    /\ (wm.pc = "verified" /\ wm.verify_key = wm.key) =>
          wm.result.timestamp_matches = wm.result.timestamp_checked

(* what the embedder writes: byte * 1000 + seed mod 1000 *)
EmbedUsesOwnFormula ==
    wm.pc = "embedded" =>
        \A i \in Stamped :
           wm.df.rows[i]["ts"] % 1000000 =
               (EmbeddedKey[(EmbeddedAnchor(i) % WatermarkLen) + 1] * 1000
                  + SeedMod(EmbeddedKey, 1000)) % 1000000

(* under the embedding key no timestamp of a table of five stamped rows    *)
(* matches the verifier's expectation                                      *)
SameKeyTimestampsMiss ==
    /\ wm.pc = "verified"
    /\ wm.verify_key = wm.key
    /\ wm.result.timestamp_checked = 5
    /\ wm.result.timestamp_matches = 0

(***************************************************************************)
(* The read-after-write probe, stated under SpecQuery.                     *)
(***************************************************************************)
Probed == resp.op = "query" /\ resp.heads > 0

HeadSucceedsOnThird ==
    Probed /\ resp.heads = 3 /\ resp.pauses = 2 /\ resp.status = 200 /\ resp.file.present

(***************************************************************************)
(* Object keys and the sweep, stated under SpecBucket.                     *)
(***************************************************************************)
Wrote == resp'.op = "query" /\ resp'.key # NoKey

Keys == {o.key : o \in objects}

(* C25: no query writes to an object key that an earlier query wrote to.   *)
C25_FreshKeyPerQuery ==
    [][Wrote => resp'.key \notin Keys]_vars

(* the part that holds: a query writes only under its own share's prefix,  *)
(* so it never overwrites a file of another share                          *)
WritesOnlyOwnShareKeys ==
    [][Wrote => /\ resp'.key.share = resp'.share
                /\ \A o \in objects : o.key.share # resp'.share => o \in objects']_vars

Queried == resp'.op = "query"

(* the objects a step removes, other than the one its upload replaces *)
Removed == {o \in objects \ objects' : o.key # resp'.key}

(* C26: the sweep of a query of share s deletes only objects under s's own *)
(* prefix that were last modified more than one hour (CleanupMaxAgeHours)  *)
(* earlier, never a younger file and never a file of another share, and a  *)
(* sweep that fails leaves the outcome of the query as it is.              *)
C26_SweepOnlyOwnOldFiles ==
    [][Queried =>
          /\ \A o \in Removed : /\ o.key.share = resp'.share
                                /\ now - o.mtime > 1
          /\ resp'.sweep_failed =>
                /\ resp'.status = 200
                /\ resp'.file.present
                /\ resp'.audited]_vars

(* a sweep that deletes an old file of the share while an equally old file *)
(* of the other share and a young file of its own stay                     *)
C26_Witness ==
    /\ resp.op = "query"
    /\ resp.swept # {}
    /\ \E o \in objects : o.key.share # resp.share /\ now - o.mtime > 1
    /\ \E o \in objects : o.key.share = resp.share /\ o.key # resp.key /\ now - o.mtime = 1

(* a sweep that fails, with old files left behind, in a query answered 200 *)
SweepFailedQueryServed ==
    /\ resp.op = "query"
    /\ resp.sweep_failed
    /\ resp.status = 200
    /\ \E o \in objects : o.key.share = resp.share /\ now - o.mtime > 1

(***************************************************************************)
(* Token rotation, stated under Spec.                                      *)
(***************************************************************************)
(* the tokens that get_share_from_token matches with share s *)
TokensOf(s) == {t \in 0..(MaxTokens + 1) : s \in MatchingShares(t)}

(* C27: once rotate_share_token succeeded, the replaced token matches no   *)
(* share and the new token matches the rotated share; at every moment at   *)
(* most one token matches a share, and a query is served only with the     *)
(* current token of the share it is served for.                            *)
C27_RotationReplacesToken ==
    /\ \A s \in ShareIds : Cardinality(TokensOf(s)) <= 1
    /\ \A s \in ShareIds : ~shares[s].revoked => TokensOf(s) = {shares[s].token}
    /\ (resp.op = "rotate" /\ resp.status = 200) =>
          /\ TokensOf(resp.share) = {nextToken - 1}
          /\ \A t \in 0..(nextToken - 2) : MatchingShares(t) \cap {resp.share} = {}
    /\ (resp.op = "query" /\ resp.status = 200) => resp.token = shares[resp.share].token

(* the token a share was created with is refused after a rotation, while   *)
(* the share is approved and not revoked                                   *)
C27_Witness ==
    /\ resp.op = "query"
    /\ resp.status = 401
    /\ resp.token = 1
    /\ shares # <<>>
    /\ shares[1].token = 2
    /\ shares[1].approval_status = "approved"
    /\ ~shares[1].revoked

ServedWithRotatedToken ==
    /\ resp.op = "query"
    /\ resp.status = 200
    /\ resp.token = 2
    /\ resp.share = 1

(***************************************************************************)
(* Purchases, stated under SpecPurchase.                                   *)
(***************************************************************************)
PurchasedShares(buyer, d) ==
    {s \in ShareIds : /\ shares[s].buyer_id = buyer
                      /\ shares[s].dataset_id = d
                      /\ ~shares[s].is_trial}

(* C28: at most one share created by purchase_dataset exists per buyer and *)
(* dataset, also when two requests of the buyer are handled concurrently.  *)
C28_OnePurchasedSharePerBuyerAndDataset ==
    \A b \in Buyers, d \in DOMAIN Datasets : Cardinality(PurchasedShares(b, d)) <= 1

(* the part that holds: a request whose check runs when a share of the     *)
(* buyer for the dataset is stored is answered 400 and stores nothing      *)
RefusedWhenShareExists ==
    [][\A w \in Workers :
          (/\ inflight[w].pc = "check"
           /\ inflight'[w].pc # "check"
           /\ PurchasedShares(inflight[w].buyer, inflight[w].dataset_id) # {}) =>
              /\ inflight'[w].status = 400
              /\ shares' = shares]_vars

Failed(w) == inflight[w].pc = "answered" /\ inflight[w].status # 200

Storing(s) == \E w \in Workers : inflight[w].pc = "add_purchase" /\ inflight[w].share_id = s

(* C29: purchase_dataset is all-or-nothing.  A request answered with an    *)
(* error leaves no Share row it created, so every stored purchased share   *)
(* whose request was answered has its Purchase record.                     *)
C29_PurchaseAllOrNothing ==
    /\ \A w \in Workers : Failed(w) => inflight[w].share_id \notin ShareIds
    /\ \A s \in ShareIds :
          (~shares[s].is_trial /\ ~Storing(s)) => \E p \in purchases : p.share_id = s

(* the part that holds: a request refused by its checks (404, 403, 400)    *)
(* has stored nothing, and a request answered 200 has stored both rows     *)
RefusedStoresNothingServedStoresBoth ==
    \A w \in Workers :
       /\ (Failed(w) /\ inflight[w].status # 500) => inflight[w].share_id = 0
       /\ (inflight[w].pc = "answered" /\ inflight[w].status = 200) =>
             /\ inflight[w].share_id \in ShareIds
             /\ \E p \in purchases : p.share_id = inflight[w].share_id

(* a purchase answered 500 whose Share row makes the buyer's next purchase *)
(* of the dataset fail with 400                                            *)
FailedPurchaseBlocksNext ==
    /\ inflight[1].pc = "answered" /\ inflight[1].status = 500
    /\ inflight[2].pc = "answered" /\ inflight[2].status = 400
    /\ inflight[2].dataset_id = inflight[1].dataset_id
    /\ Len(shares) = 1
    /\ purchases = {}

(***************************************************************************)
(* The profile endpoint, stated under Spec.                                *)
(***************************************************************************)
ProfileAnswered == resp.op = "profile"

Current(s) == shares[s].approval_status = "approved" /\ ~shares[s].revoked

(* C30: get_share_profile returns a profile only for a share that is       *)
(* approved and not revoked, with the current token of the share as        *)
(* bearerToken, and a share in that state gets its profile: a request is   *)
(* answered 200, or 403 / 404 when the caller is no party of the share or  *)
(* the share does not exist.  A revoked share has no stored profile.       *)
C30_ProfileOfCurrentShare ==
    /\ \A s \in ShareIds : shares[s].revoked => shares[s].profile_json = None
    /\ (ProfileAnswered /\ resp.status = 200) =>
          /\ Current(resp.share)
          /\ shares[resp.share].profile_json = shares[resp.share].token
    /\ (ProfileAnswered /\ ShareIds # {} /\ \A s \in ShareIds : Current(s)) =>
          resp.status \in {200, 403, 404}

(* the part that holds: no profile is stored or returned at all, so none   *)
(* is returned for a share that is not approved or is revoked              *)
NoProfileEverReturned ==
    /\ \A s \in ShareIds : shares[s].profile_json = None
    /\ ProfileAnswered => resp.status \in {400, 403, 404, 500}

(* the buyer of an approved, unrevoked share is answered 500 *)
ProfileOfApprovedShareFails ==
    /\ ProfileAnswered
    /\ resp.status = 500
    /\ ShareIds # {}
    /\ \A s \in ShareIds : Current(s)

====
